---------------------------- MODULE Spec2Model ----------------------------
(***************************************************************************)
(* A model of the RTPS message receiver (src/src/messages/receiver.rs) and *)
(* of the wire codecs it uses.                                             *)
(*                                                                         *)
(* Bytes are the integers 0..255 and a buffer is a sequence of bytes.      *)
(* A 32-bit value (u32 or i32) is kept as its four bytes, most significant *)
(* first, so that reading under an endianness is a real conversion of the  *)
(* wire bytes and no value leaves the range of the checker's integers.     *)
(* A sequence number (i64) is kept as {high: i32, low: u32}.                *)
(***************************************************************************)
EXTENDS Integers, Sequences, FiniteSets, TLC

VARIABLES
    receiver,      \* MessageReceiver.receiver: the Receiver context
    state,         \* MessageReceiver.state: DeserializationState
    bytes,         \* the caller's BytesMut handed to decode
    result,        \* what the last decode call returned
    prev,          \* the receiver, the state and the buffer's length as the last call found them
    emitted,       \* history: the notifications returned so far, with the context at that time
    units,         \* the input as it was composed: indices into Menu
    locator_kind,  \* the argument MessageReceiver::new was given
    peers,         \* two MessageReceivers side by side, each with its own buffer
    subject,       \* the value a codec, set or conversion operation is applied to
    applied        \* the operations applied to the subject so far, and what they gave

vars == <<receiver, state, bytes, result, prev, emitted, units, locator_kind,
          peers, subject, applied>>

-----------------------------------------------------------------------------
(* Bounds of the model *)

\* The number of units (message headers and submessages) an input is composed of.
MaxUnits == 3

\* The number of submessages and further message headers that follow the
\* first message header in a stream of context-changing units.
MaxContextUnits == 3

\* The number of submessages in the datagram each of two receivers is given.
MaxPairUnits == 2

\* The number of insert calls made on a number set.
MaxInserts == 3

\* The number of units after the message header in an input made of the
\* truncated, zero-length and other special submessages.
MaxCaseUnits == 2

-----------------------------------------------------------------------------
(* Byte sequences *)

Take(s, n) == SubSeq(s, 1, n)

Drop(s, n) == SubSeq(s, n + 1, Len(s))

Reverse(s) == [i \in 1..Len(s) |-> s[Len(s) + 1 - i]]

Zeros(n) == [i \in 1..n |-> 0]

RECURSIVE Flatten(_)
Flatten(ss) == IF ss = <<>> THEN <<>> ELSE Head(ss) \o Flatten(Tail(ss))

\* The four bytes, most significant first, of a number below 2^31.
U32(n) == <<n \div 16777216, (n \div 65536) % 256, (n \div 256) % 256, n % 256>>

\* The number a 32-bit value stands for when it is below 2^24, and 2^24 for
\* every larger one: no buffer of the model holds that many items.
Saturated(w) == IF w[1] # 0 THEN 16777216 ELSE w[2] * 65536 + w[3] * 256 + w[4]

-----------------------------------------------------------------------------
(* The wire types.  A struct is the sequence of its fields, <<name, type>>, *)
(* in declaration order, which is the order speedy reads and writes them.  *)

\* Types read and written byte by byte, whatever the endianness, with their lengths.
ArrayTypes ==
    [ProtocolId_t |-> 4, ProtocolVersion_t |-> 2, VendorId_t |-> 2, GuidPrefix_t |-> 12,
     EntityId_t |-> 4, Address |-> 16]

\* Types that are one 32-bit value under the endianness.
WordTypes == {"i32", "u32", "Count_t", "FragmentNumber_t", "LocatorKind_t"}

Header_fields ==
    << <<"protocol_id", "ProtocolId_t">>, <<"protocol_version", "ProtocolVersion_t">>,
       <<"vendor_id", "VendorId_t">>, <<"guid_prefix", "GuidPrefix_t">> >>

SequenceNumber_t_fields == << <<"high", "i32">>, <<"low", "u32">> >>

\* RangedBitSet<SequenceNumber_t, i64>: the base, then the bit set.
SequenceNumberSet_t_fields == << <<"base", "SequenceNumber_t">>, <<"set", "BitSetRef">> >>

FragmentNumberSet_t_fields == << <<"base", "FragmentNumber_t">>, <<"set", "BitSetRef">> >>

Time_t_fields == << <<"seconds", "i32">>, <<"fraction", "u32">> >>

Duration_t_fields == << <<"seconds", "i32">>, <<"fraction", "u32">> >>

LocatorUDPv4_t_fields == << <<"address", "u32">>, <<"port", "u32">> >>

Locator_t_fields == << <<"kind", "LocatorKind_t">>, <<"port", "u32">>, <<"address", "Address">> >>

AckNack_fields ==
    << <<"reader_id", "EntityId_t">>, <<"writer_id", "EntityId_t">>,
       <<"reader_sn_state", "SequenceNumberSet_t">>, <<"count", "Count_t">> >>

Gap_fields ==
    << <<"reader_id", "EntityId_t">>, <<"writer_id", "EntityId_t">>,
       <<"gap_start", "SequenceNumber_t">>, <<"gap_list", "SequenceNumberSet_t">> >>

Heartbeat_fields ==
    << <<"reader_id", "EntityId_t">>, <<"writer_id", "EntityId_t">>,
       <<"first_sn", "SequenceNumber_t">>, <<"last_sn", "SequenceNumber_t">>,
       <<"count", "Count_t">> >>

HeartbeatFrag_fields ==
    << <<"reader_id", "EntityId_t">>, <<"writer_id", "EntityId_t">>,
       <<"writer_sn", "SequenceNumber_t">>,
       <<"last_fragment_num", "FragmentNumber_t">>, <<"count", "Count_t">> >>

NackFrag_fields ==
    << <<"reader_id", "EntityId_t">>, <<"writer_id", "EntityId_t">>,
       <<"writer_sn", "SequenceNumber_t">>,
       <<"fragment_number_state", "FragmentNumberSet_t">>, <<"count", "Count_t">> >>

\* The INFO_SRC body as the receiver's tests encode it: 16 bytes.
InfoSource_fields ==
    << <<"protocol_version", "ProtocolVersion_t">>, <<"vendor_id", "VendorId_t">>,
       <<"guid_prefix", "GuidPrefix_t">> >>

InfoDestination_fields == << <<"guid_prefix", "GuidPrefix_t">> >>

Structs ==
    [Header |-> Header_fields,
     SequenceNumber_t |-> SequenceNumber_t_fields,
     SequenceNumberSet_t |-> SequenceNumberSet_t_fields,
     FragmentNumberSet_t |-> FragmentNumberSet_t_fields,
     Time_t |-> Time_t_fields,
     Duration_t |-> Duration_t_fields,
     LocatorUDPv4_t |-> LocatorUDPv4_t_fields,
     Locator_t |-> Locator_t_fields,
     AckNack |-> AckNack_fields,
     Gap |-> Gap_fields,
     Heartbeat |-> Heartbeat_fields,
     HeartbeatFrag |-> HeartbeatFrag_fields,
     NackFrag |-> NackFrag_fields,
     InfoSource |-> InfoSource_fields,
     InfoDestination |-> InfoDestination_fields]

\* LocatorKind_t, as the i32 it is on the wire.
LOCATOR_KIND_INVALID == <<255, 255, 255, 255>>

LOCATOR_KIND_RESERVED == U32(0)

LOCATOR_KIND_UDPv4 == U32(1)

LOCATOR_KIND_UDPv6 == U32(2)

LocatorKinds ==
    {LOCATOR_KIND_INVALID, LOCATOR_KIND_RESERVED, LOCATOR_KIND_UDPv4, LOCATOR_KIND_UDPv6}

-----------------------------------------------------------------------------
(* speedy readers and writers.  A reader returns [ok, val, rest]. *)

\* Endianness::NATIVE, on the little-endian machines the tests run on.
NATIVE == "LittleEndian"

Fail == [ok |-> FALSE, val |-> <<>>, rest |-> <<>>]

Done(v, r) == [ok |-> TRUE, val |-> v, rest |-> r]

\* reader.read_u8() n times: a byte array in declaration order.
ReadArray(n, b) == IF Len(b) < n THEN Fail ELSE Done(Take(b, n), Drop(b, n))

\* A u32 or i32 under the context's endianness.
ReadWord(b, e) ==
    IF Len(b) < 4 THEN Fail
    ELSE Done(IF e = "LittleEndian" THEN Reverse(Take(b, 4)) ELSE Take(b, 4), Drop(b, 4))

WriteWord(w, e) == IF e = "LittleEndian" THEN Reverse(w) ELSE w

\* An enum tag outside the enum is a read error.
CheckLocatorKind(r) == IF r.ok /\ r.val \in LocatorKinds THEN r ELSE Fail

RECURSIVE ReadField(_, _, _), ReadStruct(_, _, _, _), StructStep(_, _, _, _)
RECURSIVE ReadItems(_, _, _, _, _), ItemsStep(_, _, _, _, _)

\* n values of one type, one after the other.
ReadItems(type, n, b, e, acc) ==
    IF n = 0 THEN Done(acc, b) ELSE ItemsStep(type, n, e, acc, ReadField(type, b, e))

ItemsStep(type, n, e, acc, r) ==
    IF r.ok THEN ReadItems(type, n - 1, r.rest, e, Append(acc, r.val)) ELSE Fail

\* BitSetRef after its num_bits: ceil(num_bits / 32) bitmap words.
ReadBitmap(nb, e) ==
    IF ~nb.ok \/ Len(nb.rest) < 4 * ((Saturated(nb.val) + 31) \div 32) THEN Fail
    ELSE ReadItems("u32", (Saturated(nb.val) + 31) \div 32, nb.rest, e, <<>>)

AsBitSetRef(nb, ws) ==
    IF ws.ok THEN Done([num_bits |-> nb.val, bitmap |-> ws.val], ws.rest) ELSE Fail

\* Vec<T> after its u32 length.
ReadVecItems(type, size, n, e) ==
    IF ~n.ok \/ Len(n.rest) < size * Saturated(n.val) THEN Fail
    ELSE ReadItems(type, Saturated(n.val), n.rest, e, <<>>)

\* Readable::read_from of one field.
ReadField(type, b, e) ==
    CASE type \in DOMAIN ArrayTypes -> ReadArray(ArrayTypes[type], b)
      [] type = "LocatorKind_t"     -> CheckLocatorKind(ReadWord(b, e))
      [] type \in WordTypes \ {"LocatorKind_t"} -> ReadWord(b, e)
      [] type = "BitSetRef"         -> AsBitSetRef(ReadWord(b, e), ReadBitmap(ReadWord(b, e), e))
      [] type = "LocatorList_t"     -> ReadVecItems("Locator_t", 24, ReadWord(b, e), e)
      [] OTHER                      -> ReadStruct(Structs[type], b, e, <<>>)

\* The derived Readable of a struct: its fields in declaration order; the
\* first error ends the read.
ReadStruct(fields, b, e, acc) ==
    IF fields = <<>> THEN Done(acc, b)
    ELSE StructStep(fields, e, acc, ReadField(fields[1][2], b, e))

StructStep(fields, e, acc, r) ==
    IF r.ok THEN ReadStruct(Tail(fields), r.rest, e, acc @@ (fields[1][1] :> r.val)) ELSE Fail

\* read_from_buffer_owned_with_ctx / read_with_length_from_buffer_with_ctx.
Read(type, b, e) == ReadField(type, b, e)

RECURSIVE WriteField(_, _, _)
\* Writable::write_to of one field.
WriteField(type, v, e) ==
    CASE type \in DOMAIN ArrayTypes -> v
      [] type \in WordTypes         -> WriteWord(v, e)
      [] type = "BitSetRef"         ->
             WriteWord(v.num_bits, e) \o
             Flatten([i \in 1..Len(v.bitmap) |-> WriteWord(v.bitmap[i], e)])
      [] type = "LocatorList_t"     ->
             WriteWord(U32(Len(v)), e) \o
             Flatten([i \in 1..Len(v) |-> WriteField("Locator_t", v[i], e)])
      [] OTHER                      ->
             Flatten([i \in 1..Len(Structs[type]) |->
                         WriteField(Structs[type][i][2], v[Structs[type][i][1]], e)])

\* write_to_vec_with_ctx.
Write(type, v, e) == WriteField(type, v, e)

-----------------------------------------------------------------------------
(* Constants of the wire types *)

\* ProtocolVersion_t::PROTOCOLVERSION (2.4) and PROTOCOLVERSION_2_1.
PROTOCOLVERSION == <<2, 4>>

PROTOCOLVERSION_2_1 == <<2, 1>>

VENDOR_UNKNOWN == <<0, 0>>

GUIDPREFIX_UNKNOWN == Zeros(12)

\* ProtocolId_t::PROTOCOL_RTPS: the ASCII bytes of "RTPS".
PROTOCOL_RTPS == <<82, 84, 80, 83>>

TIME_INVALID == [seconds |-> <<255, 255, 255, 255>>, fraction |-> <<255, 255, 255, 255>>]

TIME_INFINITE == [seconds |-> <<127, 255, 255, 255>>, fraction |-> <<255, 255, 255, 255>>]

LOCATOR_ADDRESS_INVALID == Zeros(16)

LOCATOR_PORT_INVALID == U32(0)

LOCATOR_INVALID ==
    [kind |-> LOCATOR_KIND_INVALID, address |-> LOCATOR_ADDRESS_INVALID,
     port |-> LOCATOR_PORT_INVALID]

ENTITYID_SEDP_BUILTIN_PUBLICATIONS_WRITER == <<0, 0, 3, 194>>

ENTITYID_SEDP_BUILTIN_PUBLICATIONS_READER == <<0, 0, 3, 199>>

ENTITYID_SEDP_BUILTIN_SUBSCRIPTIONS_WRITER == <<0, 0, 4, 194>>

ENTITYID_SEDP_BUILTIN_SUBSCRIPTIONS_READER == <<0, 0, 4, 199>>

ENTITYID_P2P_BUILTIN_PARTICIPANT_MESSAGE_WRITER == <<0, 2, 0, 194>>

ENTITYID_P2P_BUILTIN_PARTICIPANT_MESSAGE_READER == <<0, 2, 0, 199>>

\* SequenceNumber_t::from(n), for n below 2^31.
SequenceNumber_from(n) == [high |-> U32(0), low |-> U32(n)]

\* BitSetRef::new(), and the sets' new(base): no bits.
BitSetRef_new == [num_bits |-> U32(0), bitmap |-> <<>>]

SequenceNumberSet_new(base) == [base |-> base, set |-> BitSetRef_new]

\* Faulty variant of new: the bitmap starts with one empty word.
FragmentNumberSet_new_one_word(base) ==
    [base |-> base, set |-> [num_bits |-> U32(32), bitmap |-> <<U32(0)>>]]

FragmentNumberSet_new(base) == [base |-> base, set |-> BitSetRef_new]

\* SubmessageKind values.
PAD == 1

ACKNACK == 6

HEARTBEAT == 7

GAP == 8

INFO_TS == 9

INFO_SRC == 12

INFO_DST == 14

INFO_REPLAY == 15

NACK_FRAG == 18

HEARTBEAT_FRAG == 19

DATA == 21

DATA_FRAG == 22

-----------------------------------------------------------------------------
(* Header and submessage header *)

\* <Header as Readable>::minimum_bytes_needed() and the submessage header's.
HeaderMinimumBytesNeeded == 20

SubmessageHeaderMinimumBytesNeeded == 4

\* Header::new(guid).
Header_new(guid) ==
    [protocol_id |-> PROTOCOL_RTPS, protocol_version |-> PROTOCOLVERSION,
     vendor_id |-> VENDOR_UNKNOWN, guid_prefix |-> guid]

\* Header::valid(): the magic is "RTPS" and the version is at least 2.1.
Header_valid(h) ==
    /\ h.protocol_id = PROTOCOL_RTPS
    /\ \/ h.protocol_version[1] > PROTOCOLVERSION_2_1[1]
       \/ /\ h.protocol_version[1] = PROTOCOLVERSION_2_1[1]
          /\ h.protocol_version[2] >= PROTOCOLVERSION_2_1[2]

\* SubmessageFlag::endianness_flag(): bit 0 set is little-endian.
endianness_flag(flags) == IF flags % 2 = 1 THEN "LittleEndian" ELSE "BigEndian"

\* SubmessageFlag::is_flag_set(mask), for a one-bit mask.
is_flag_set(flags, mask) == (flags \div mask) % 2 = 1

\* SubmessageHeader {submessage_id, flags, submessage_length}: the length is a
\* u16 under the endianness the flags give.
SubmessageHeader_read(b) ==
    [submessage_id |-> b[1], flags |-> b[2],
     submessage_length |-> IF endianness_flag(b[2]) = "LittleEndian"
                           THEN b[3] + 256 * b[4] ELSE 256 * b[3] + b[4]]

SubmessageHeader_write(sh) ==
    <<sh.submessage_id, sh.flags>> \o
    (IF endianness_flag(sh.flags) = "LittleEndian"
     THEN <<sh.submessage_length % 256, sh.submessage_length \div 256>>
     ELSE <<sh.submessage_length \div 256, sh.submessage_length % 256>>)

-----------------------------------------------------------------------------
(* The receiver *)

\* Faulty variant of Receiver::new: the reply lists hold LOCATOR_INVALID,
\* whatever kind the receiver was configured with.
Receiver_new_invalid_kind(kind) ==
    [source_version |-> PROTOCOLVERSION,
     source_vendor_id |-> VENDOR_UNKNOWN,
     source_guid_prefix |-> GUIDPREFIX_UNKNOWN,
     dest_guid_prefix |-> GUIDPREFIX_UNKNOWN,
     unicast_reply_locator_list |-> <<LOCATOR_INVALID>>,
     multicast_reply_locator_list |-> <<LOCATOR_INVALID>>,
     have_timestamp |-> FALSE,
     timestamp |-> TIME_INVALID]

\* Receiver::new(locator_kind).
Receiver_new(kind) ==
    [source_version |-> PROTOCOLVERSION,
     source_vendor_id |-> VENDOR_UNKNOWN,
     source_guid_prefix |-> GUIDPREFIX_UNKNOWN,
     dest_guid_prefix |-> GUIDPREFIX_UNKNOWN,
     unicast_reply_locator_list |->
         <<[kind |-> kind, address |-> LOCATOR_ADDRESS_INVALID, port |-> LOCATOR_PORT_INVALID]>>,
     multicast_reply_locator_list |->
         <<[kind |-> kind, address |-> LOCATOR_ADDRESS_INVALID, port |-> LOCATOR_PORT_INVALID]>>,
     have_timestamp |-> FALSE,
     timestamp |-> TIME_INVALID]

\* What a decode call returns: Ok(None), Ok(Some(item)), Err(error), or no
\* return at all (a panic unwinding through the caller).
OkNone == [tag |-> "Ok", item |-> <<>>, error |-> ""]

OkSome(item) == [tag |-> "Ok", item |-> <<item>>, error |-> ""]

Err(kind) == [tag |-> "Err", item |-> <<>>, error |-> kind]

Panic(why) == [tag |-> "Panic", item |-> <<>>, error |-> why]

\* The receiver, state and buffer a decode call leaves, and what it returned.
Outcome(recv, st, buf, res) == [receiver |-> recv, state |-> st, bytes |-> buf, result |-> res]

\* Faulty variant of the ReadingHeader arm: have_timestamp is not cleared.
decode_ReadingHeader_keeps_timestamp(recv, st, buf) ==
    IF Len(buf) < HeaderMinimumBytesNeeded THEN Outcome(recv, st, buf, Panic("split_to"))
    ELSE LET header == Read("Header", Take(buf, HeaderMinimumBytesNeeded), NATIVE)
             rest   == Drop(buf, HeaderMinimumBytesNeeded)
         IN  IF header.ok /\ Header_valid(header.val)
             THEN Outcome([recv EXCEPT !.source_guid_prefix = header.val.guid_prefix,
                                       !.source_version = header.val.protocol_version,
                                       !.source_vendor_id = header.val.vendor_id],
                          "ReadingSubmessage", rest, OkNone)
             ELSE Outcome(recv, st, rest, Err("InvalidData"))

\* Faulty variant of the ReadingHeader arm: the state is advanced before the
\* header is validated.
decode_ReadingHeader_advances_first(recv, st, buf) ==
    IF Len(buf) < HeaderMinimumBytesNeeded THEN Outcome(recv, st, buf, Panic("split_to"))
    ELSE LET header == Read("Header", Take(buf, HeaderMinimumBytesNeeded), NATIVE)
             rest   == Drop(buf, HeaderMinimumBytesNeeded)
         IN  IF header.ok /\ Header_valid(header.val)
             THEN Outcome([recv EXCEPT !.source_guid_prefix = header.val.guid_prefix,
                                       !.source_version = header.val.protocol_version,
                                       !.source_vendor_id = header.val.vendor_id,
                                       !.have_timestamp = FALSE],
                          "ReadingSubmessage", rest, OkNone)
             ELSE Outcome(recv, "ReadingSubmessage", rest, Err("InvalidData"))

\* Faulty variant of the ReadingHeader arm: the source fields are stored
\* before the header is validated.
decode_ReadingHeader_stores_first(recv, st, buf) ==
    IF Len(buf) < HeaderMinimumBytesNeeded THEN Outcome(recv, st, buf, Panic("split_to"))
    ELSE LET header == Read("Header", Take(buf, HeaderMinimumBytesNeeded), NATIVE)
             rest   == Drop(buf, HeaderMinimumBytesNeeded)
             recv1  == [recv EXCEPT !.source_guid_prefix = header.val.guid_prefix,
                                    !.source_version = header.val.protocol_version,
                                    !.source_vendor_id = header.val.vendor_id,
                                    !.have_timestamp = FALSE]
         IN  IF header.ok /\ Header_valid(header.val)
             THEN Outcome(recv1, "ReadingSubmessage", rest, OkNone)
             ELSE Outcome(IF header.ok THEN recv1 ELSE recv, st, rest, Err("InvalidData"))

\* Faulty variant of the ReadingHeader arm: a new message also resets the
\* destination prefix.
decode_ReadingHeader_resets_destination(recv, st, buf) ==
    IF Len(buf) < HeaderMinimumBytesNeeded THEN Outcome(recv, st, buf, Panic("split_to"))
    ELSE LET header == Read("Header", Take(buf, HeaderMinimumBytesNeeded), NATIVE)
             rest   == Drop(buf, HeaderMinimumBytesNeeded)
         IN  IF header.ok /\ Header_valid(header.val)
             THEN Outcome([recv EXCEPT !.source_guid_prefix = header.val.guid_prefix,
                                       !.source_version = header.val.protocol_version,
                                       !.source_vendor_id = header.val.vendor_id,
                                       !.dest_guid_prefix = GUIDPREFIX_UNKNOWN,
                                       !.have_timestamp = FALSE],
                          "ReadingSubmessage", rest, OkNone)
             ELSE Outcome(recv, st, rest, Err("InvalidData"))

\* decode, DeserializationState::ReadingHeader arm.  split_to panics on a
\* buffer shorter than the header.
decode_ReadingHeader(recv, st, buf) ==
    IF Len(buf) < HeaderMinimumBytesNeeded THEN Outcome(recv, st, buf, Panic("split_to"))
    ELSE LET header == Read("Header", Take(buf, HeaderMinimumBytesNeeded), NATIVE)
             rest   == Drop(buf, HeaderMinimumBytesNeeded)
         IN  IF header.ok /\ Header_valid(header.val)
             THEN Outcome([recv EXCEPT !.source_guid_prefix = header.val.guid_prefix,
                                       !.source_version = header.val.protocol_version,
                                       !.source_vendor_id = header.val.vendor_id,
                                       !.have_timestamp = FALSE],
                          "ReadingSubmessage", rest, OkNone)
             ELSE Outcome(recv, st, rest, Err("InvalidData"))

\* Faulty variant of the last-submessage test: INFO_TS and PAD are not
\* excluded.
is_last_submessage_any_kind(sh) == sh.submessage_length = 0

\* "This is a last submessage": the test made on every submessage header.
is_last_submessage(sh) ==
    /\ sh.submessage_length = 0
    /\ sh.submessage_id # INFO_TS
    /\ sh.submessage_id # PAD

\* The arms of the match on submessage_id.  st is the state the header step
\* left, buf the buffer after the submessage header.
\* Faulty variant of the ACKNACK arm: the body is read big-endian whatever
\* the flags say.
decode_ACKNACK_big_endian(recv, st, sh, buf) ==
    IF Len(buf) < sh.submessage_length THEN Outcome(recv, st, buf, Panic("split_to"))
    ELSE LET ack_nack == Read("AckNack", Take(buf, sh.submessage_length), "BigEndian")
             rest     == Drop(buf, sh.submessage_length)
         IN  IF ack_nack.ok
             THEN Outcome(recv, st, rest, OkSome(<<"AckNack", ack_nack.val, sh.flags>>))
             ELSE Outcome(recv, st, rest, Err("speedy"))

\* Faulty variant of the ACKNACK arm: a body that fails to parse ends the
\* message.
decode_ACKNACK_error_resets(recv, st, sh, buf) ==
    IF Len(buf) < sh.submessage_length THEN Outcome(recv, st, buf, Panic("split_to"))
    ELSE LET ack_nack == Read("AckNack", Take(buf, sh.submessage_length), endianness_flag(sh.flags))
             rest     == Drop(buf, sh.submessage_length)
         IN  IF ack_nack.ok
             THEN Outcome(recv, st, rest, OkSome(<<"AckNack", ack_nack.val, sh.flags>>))
             ELSE Outcome(recv, "ReadingHeader", rest, Err("speedy"))

decode_ACKNACK(recv, st, sh, buf) ==
    IF Len(buf) < sh.submessage_length THEN Outcome(recv, st, buf, Panic("split_to"))
    ELSE LET ack_nack == Read("AckNack", Take(buf, sh.submessage_length), endianness_flag(sh.flags))
             rest     == Drop(buf, sh.submessage_length)
         IN  IF ack_nack.ok
             THEN Outcome(recv, st, rest, OkSome(<<"AckNack", ack_nack.val, sh.flags>>))
             ELSE Outcome(recv, st, rest, Err("speedy"))

\* Faulty variant of the GAP arm: the body is read and nothing is emitted.
decode_GAP_silent(recv, st, sh, buf) ==
    IF Len(buf) < sh.submessage_length THEN Outcome(recv, st, buf, Panic("split_to"))
    ELSE LET gap  == Read("Gap", Take(buf, sh.submessage_length), endianness_flag(sh.flags))
             rest == Drop(buf, sh.submessage_length)
         IN  IF gap.ok
             THEN Outcome(recv, st, rest, OkNone)
             ELSE Outcome(recv, st, rest, Err("speedy"))

\* Faulty variant of the GAP arm: the body is read under the native
\* endianness whatever the flags say.
decode_GAP_native(recv, st, sh, buf) ==
    IF Len(buf) < sh.submessage_length THEN Outcome(recv, st, buf, Panic("split_to"))
    ELSE LET gap  == Read("Gap", Take(buf, sh.submessage_length), NATIVE)
             rest == Drop(buf, sh.submessage_length)
         IN  IF gap.ok
             THEN Outcome(recv, st, rest, OkSome(<<"Gap", gap.val>>))
             ELSE Outcome(recv, st, rest, Err("speedy"))

\* Faulty variant of the GAP arm: the body is read from the buffer, not from
\* the submessage_length bytes split off it.
decode_GAP_reads_buffer(recv, st, sh, buf) ==
    IF Len(buf) < sh.submessage_length THEN Outcome(recv, st, buf, Panic("split_to"))
    ELSE LET gap  == Read("Gap", buf, endianness_flag(sh.flags))
             rest == Drop(buf, sh.submessage_length)
         IN  IF gap.ok
             THEN Outcome(recv, st, rest, OkSome(<<"Gap", gap.val>>))
             ELSE Outcome(recv, st, rest, Err("speedy"))

decode_GAP(recv, st, sh, buf) ==
    IF Len(buf) < sh.submessage_length THEN Outcome(recv, st, buf, Panic("split_to"))
    ELSE LET gap  == Read("Gap", Take(buf, sh.submessage_length), endianness_flag(sh.flags))
             rest == Drop(buf, sh.submessage_length)
         IN  IF gap.ok
             THEN Outcome(recv, st, rest, OkSome(<<"Gap", gap.val>>))
             ELSE Outcome(recv, st, rest, Err("speedy"))

\* Faulty variant of the NACK_FRAG arm: the destination prefix is reset.
decode_NACK_FRAG_resets_destination(recv, st, sh, buf) ==
    IF Len(buf) < sh.submessage_length THEN Outcome(recv, st, buf, Panic("split_to"))
    ELSE LET nack_frag == Read("NackFrag", Take(buf, sh.submessage_length), endianness_flag(sh.flags))
             rest      == Drop(buf, sh.submessage_length)
         IN  IF nack_frag.ok
             THEN Outcome([recv EXCEPT !.dest_guid_prefix = GUIDPREFIX_UNKNOWN], st, rest,
                          OkSome(<<"NackFrag", nack_frag.val>>))
             ELSE Outcome(recv, st, rest, Err("speedy"))

decode_NACK_FRAG(recv, st, sh, buf) ==
    IF Len(buf) < sh.submessage_length THEN Outcome(recv, st, buf, Panic("split_to"))
    ELSE LET nack_frag == Read("NackFrag", Take(buf, sh.submessage_length), endianness_flag(sh.flags))
             rest      == Drop(buf, sh.submessage_length)
         IN  IF nack_frag.ok
             THEN Outcome(recv, st, rest, OkSome(<<"NackFrag", nack_frag.val>>))
             ELSE Outcome(recv, st, rest, Err("speedy"))

decode_HEARTBEAT(recv, st, sh, buf) ==
    IF Len(buf) < sh.submessage_length THEN Outcome(recv, st, buf, Panic("split_to"))
    ELSE LET heartbeat == Read("Heartbeat", Take(buf, sh.submessage_length), endianness_flag(sh.flags))
             rest      == Drop(buf, sh.submessage_length)
         IN  IF heartbeat.ok
             THEN Outcome(recv, st, rest, OkSome(<<"Heartbeat", heartbeat.val, sh.flags>>))
             ELSE Outcome(recv, st, rest, Err("speedy"))

\* Faulty variant of the HEARTBEAT_FRAG arm: the body is read under the
\* endianness the submessage header was read with.
decode_HEARTBEAT_FRAG_native(recv, st, sh, buf) ==
    IF Len(buf) < sh.submessage_length THEN Outcome(recv, st, buf, Panic("split_to"))
    ELSE LET heartbeat_frag == Read("HeartbeatFrag", Take(buf, sh.submessage_length), NATIVE)
             rest == Drop(buf, sh.submessage_length)
         IN  IF heartbeat_frag.ok
             THEN Outcome(recv, st, rest, OkSome(<<"HeartbeatFrag", heartbeat_frag.val>>))
             ELSE Outcome(recv, st, rest, Err("speedy"))

decode_HEARTBEAT_FRAG(recv, st, sh, buf) ==
    IF Len(buf) < sh.submessage_length THEN Outcome(recv, st, buf, Panic("split_to"))
    ELSE LET heartbeat_frag ==
                 Read("HeartbeatFrag", Take(buf, sh.submessage_length), endianness_flag(sh.flags))
             rest == Drop(buf, sh.submessage_length)
         IN  IF heartbeat_frag.ok
             THEN Outcome(recv, st, rest, OkSome(<<"HeartbeatFrag", heartbeat_frag.val>>))
             ELSE Outcome(recv, st, rest, Err("speedy"))

\* Faulty variant of the INFO_SRC arm: the reply locator lists are left as
\* they were.
decode_INFO_SRC_keeps_lists(recv, st, sh, buf) ==
    IF Len(buf) < sh.submessage_length THEN Outcome(recv, st, buf, Panic("split_to"))
    ELSE LET info_src == Read("InfoSource", Take(buf, sh.submessage_length), endianness_flag(sh.flags))
             rest     == Drop(buf, sh.submessage_length)
         IN  IF info_src.ok
             THEN Outcome([recv EXCEPT !.source_guid_prefix = info_src.val.guid_prefix,
                                       !.source_version = info_src.val.protocol_version,
                                       !.source_vendor_id = info_src.val.vendor_id,
                                       !.have_timestamp = FALSE],
                          st, rest, OkNone)
             ELSE Outcome(recv, st, rest, Err("speedy"))

\* Faulty variant of the INFO_SRC arm: have_timestamp is left as it was.
decode_INFO_SRC_keeps_timestamp(recv, st, sh, buf) ==
    IF Len(buf) < sh.submessage_length THEN Outcome(recv, st, buf, Panic("split_to"))
    ELSE LET info_src == Read("InfoSource", Take(buf, sh.submessage_length), endianness_flag(sh.flags))
             rest     == Drop(buf, sh.submessage_length)
         IN  IF info_src.ok
             THEN Outcome([recv EXCEPT !.source_guid_prefix = info_src.val.guid_prefix,
                                       !.source_version = info_src.val.protocol_version,
                                       !.source_vendor_id = info_src.val.vendor_id,
                                       !.unicast_reply_locator_list = <<LOCATOR_INVALID>>,
                                       !.multicast_reply_locator_list = <<LOCATOR_INVALID>>],
                          st, rest, OkNone)
             ELSE Outcome(recv, st, rest, Err("speedy"))

decode_INFO_SRC(recv, st, sh, buf) ==
    IF Len(buf) < sh.submessage_length THEN Outcome(recv, st, buf, Panic("split_to"))
    ELSE LET info_src == Read("InfoSource", Take(buf, sh.submessage_length), endianness_flag(sh.flags))
             rest     == Drop(buf, sh.submessage_length)
         IN  IF info_src.ok
             THEN Outcome([recv EXCEPT !.source_guid_prefix = info_src.val.guid_prefix,
                                       !.source_version = info_src.val.protocol_version,
                                       !.source_vendor_id = info_src.val.vendor_id,
                                       !.unicast_reply_locator_list = <<LOCATOR_INVALID>>,
                                       !.multicast_reply_locator_list = <<LOCATOR_INVALID>>,
                                       !.have_timestamp = FALSE],
                          st, rest, OkNone)
             ELSE Outcome(recv, st, rest, Err("speedy"))

\* Faulty variant of the INFO_DST arm: the prefix is stored whatever it is.
decode_INFO_DST_always_overwrites(recv, st, sh, buf) ==
    IF Len(buf) < sh.submessage_length THEN Outcome(recv, st, buf, Panic("split_to"))
    ELSE LET info_dst == Read("InfoDestination", Take(buf, sh.submessage_length), endianness_flag(sh.flags))
             rest     == Drop(buf, sh.submessage_length)
         IN  IF info_dst.ok
             THEN Outcome([recv EXCEPT !.dest_guid_prefix = info_dst.val.guid_prefix],
                          st, rest, OkNone)
             ELSE Outcome(recv, st, rest, Err("speedy"))

\* Faulty variant of the INFO_DST arm: the body is read from the caller's
\* buffer itself, so that only the bytes the reader used are consumed.
decode_INFO_DST_consumes_read(recv, st, sh, buf) ==
    IF Len(buf) < sh.submessage_length THEN Outcome(recv, st, buf, Panic("split_to"))
    ELSE LET info_dst == Read("InfoDestination", buf, endianness_flag(sh.flags))
         IN  IF info_dst.ok
             THEN Outcome(IF info_dst.val.guid_prefix # GUIDPREFIX_UNKNOWN
                          THEN [recv EXCEPT !.dest_guid_prefix = info_dst.val.guid_prefix]
                          ELSE recv,
                          st, info_dst.rest, OkNone)
             ELSE Outcome(recv, st, buf, Err("speedy"))

decode_INFO_DST(recv, st, sh, buf) ==
    IF Len(buf) < sh.submessage_length THEN Outcome(recv, st, buf, Panic("split_to"))
    ELSE LET info_dst == Read("InfoDestination", Take(buf, sh.submessage_length), endianness_flag(sh.flags))
             rest     == Drop(buf, sh.submessage_length)
         IN  IF info_dst.ok
             THEN Outcome(IF info_dst.val.guid_prefix # GUIDPREFIX_UNKNOWN
                          THEN [recv EXCEPT !.dest_guid_prefix = info_dst.val.guid_prefix]
                          ELSE recv,
                          st, rest, OkNone)
             ELSE Outcome(recv, st, rest, Err("speedy"))

\* Faulty variant of the INFO_REPLAY arm: without the multicast flag the
\* multicast list is left as it was.
decode_INFO_REPLAY_keeps_multicast(recv, st, sh, buf) ==
    IF Len(buf) < sh.submessage_length THEN Outcome(recv, st, buf, Panic("split_to"))
    ELSE LET body    == Take(buf, sh.submessage_length)
             rest    == Drop(buf, sh.submessage_length)
             e       == endianness_flag(sh.flags)
             unicast == Read("LocatorList_t", body, e)
             multicast == Read("LocatorList_t", unicast.rest, e)
             recv1   == [recv EXCEPT !.unicast_reply_locator_list = unicast.val]
         IN  IF ~unicast.ok THEN Outcome(recv, st, rest, Err("speedy"))
             ELSE IF ~is_flag_set(sh.flags, 2)
             THEN Outcome(recv1, st, rest, OkNone)
             ELSE IF multicast.ok
             THEN Outcome([recv1 EXCEPT !.multicast_reply_locator_list = multicast.val],
                          st, rest, OkNone)
             ELSE Outcome(recv1, st, rest, Err("speedy"))

\* The unicast list is stored before the multicast list is read: a failure of
\* the second read leaves the first assignment in place.
decode_INFO_REPLAY(recv, st, sh, buf) ==
    IF Len(buf) < sh.submessage_length THEN Outcome(recv, st, buf, Panic("split_to"))
    ELSE LET body    == Take(buf, sh.submessage_length)
             rest    == Drop(buf, sh.submessage_length)
             e       == endianness_flag(sh.flags)
             unicast == Read("LocatorList_t", body, e)
             multicast == Read("LocatorList_t", unicast.rest, e)
             recv1   == [recv EXCEPT !.unicast_reply_locator_list = unicast.val]
         IN  IF ~unicast.ok THEN Outcome(recv, st, rest, Err("speedy"))
             ELSE IF ~is_flag_set(sh.flags, 2)
             THEN Outcome([recv1 EXCEPT !.multicast_reply_locator_list = <<>>], st, rest, OkNone)
             ELSE IF multicast.ok
             THEN Outcome([recv1 EXCEPT !.multicast_reply_locator_list = multicast.val],
                          st, rest, OkNone)
             ELSE Outcome(recv1, st, rest, Err("speedy"))

\* Faulty variant of the INFO_TS arm: the timestamp read is not stored.
decode_INFO_TS_drops_timestamp(recv, st, sh, buf) ==
    IF is_flag_set(sh.flags, 2)
    THEN Outcome([recv EXCEPT !.have_timestamp = FALSE], st, buf, OkNone)
    ELSE IF Len(buf) < sh.submessage_length THEN Outcome(recv, st, buf, Panic("split_to"))
    ELSE LET timestamp == Read("Time_t", Take(buf, sh.submessage_length), endianness_flag(sh.flags))
             rest      == Drop(buf, sh.submessage_length)
         IN  IF timestamp.ok
             THEN Outcome([recv EXCEPT !.have_timestamp = TRUE], st, rest, OkNone)
             ELSE Outcome(recv, st, rest, Err("speedy"))

\* Faulty variant of the INFO_TS arm: the InvalidateFlag is not looked at.
decode_INFO_TS_ignores_invalidate(recv, st, sh, buf) ==
    IF Len(buf) < sh.submessage_length THEN Outcome(recv, st, buf, Panic("split_to"))
    ELSE LET timestamp == Read("Time_t", Take(buf, sh.submessage_length), endianness_flag(sh.flags))
             rest      == Drop(buf, sh.submessage_length)
         IN  IF timestamp.ok
             THEN Outcome([recv EXCEPT !.have_timestamp = TRUE, !.timestamp = timestamp.val],
                          st, rest, OkNone)
             ELSE Outcome(recv, st, rest, Err("speedy"))

\* Faulty variant of the INFO_TS arm: the InvalidateFlag flips have_timestamp
\* instead of clearing it.
decode_INFO_TS_toggles(recv, st, sh, buf) ==
    IF is_flag_set(sh.flags, 2)
    THEN Outcome([recv EXCEPT !.have_timestamp = ~recv.have_timestamp], st, buf, OkNone)
    ELSE IF Len(buf) < sh.submessage_length THEN Outcome(recv, st, buf, Panic("split_to"))
    ELSE LET timestamp == Read("Time_t", Take(buf, sh.submessage_length), endianness_flag(sh.flags))
             rest      == Drop(buf, sh.submessage_length)
         IN  IF timestamp.ok
             THEN Outcome([recv EXCEPT !.have_timestamp = TRUE, !.timestamp = timestamp.val],
                          st, rest, OkNone)
             ELSE Outcome(recv, st, rest, Err("speedy"))

decode_INFO_TS(recv, st, sh, buf) ==
    IF is_flag_set(sh.flags, 2)
    THEN Outcome([recv EXCEPT !.have_timestamp = FALSE], st, buf, OkNone)
    ELSE IF Len(buf) < sh.submessage_length THEN Outcome(recv, st, buf, Panic("split_to"))
    ELSE LET timestamp == Read("Time_t", Take(buf, sh.submessage_length), endianness_flag(sh.flags))
             rest      == Drop(buf, sh.submessage_length)
         IN  IF timestamp.ok
             THEN Outcome([recv EXCEPT !.have_timestamp = TRUE, !.timestamp = timestamp.val],
                          st, rest, OkNone)
             ELSE Outcome(recv, st, rest, Err("speedy"))

\* Faulty variant of the PAD arm: the buffer is not advanced.
decode_PAD_no_advance(recv, st, sh, buf) ==
    IF Len(buf) < sh.submessage_length THEN Outcome(recv, st, buf, Panic("advance"))
    ELSE Outcome(recv, st, buf, OkNone)

\* bytes.advance panics when fewer bytes remain.
decode_PAD(recv, st, sh, buf) ==
    IF Len(buf) < sh.submessage_length THEN Outcome(recv, st, buf, Panic("advance"))
    ELSE Outcome(recv, st, Drop(buf, sh.submessage_length), OkNone)

\* DATA and DATA_FRAG: unimplemented!().
decode_DATA(recv, st, sh, buf) == Outcome(recv, st, buf, Panic("unimplemented"))

\* Faulty variant of the arm for the other kinds: the submessage header is
\* put back into the buffer.
decode_unknown_rewinds(recv, st, sh, buf) ==
    Outcome(recv, st, SubmessageHeader_write(sh) \o buf, OkNone)

\* Any other kind: a log line, and nothing is consumed after the header.
decode_unknown(recv, st, sh, buf) == Outcome(recv, st, buf, OkNone)

\* decode, DeserializationState::ReadingSubmessage arm.
decode_ReadingSubmessage(recv, st, buf) ==
    IF Len(buf) < SubmessageHeaderMinimumBytesNeeded
    THEN Outcome(recv, st, buf, Panic("split_to"))
    ELSE LET sh   == SubmessageHeader_read(Take(buf, SubmessageHeaderMinimumBytesNeeded))
             rest == Drop(buf, SubmessageHeaderMinimumBytesNeeded)
             st1  == IF is_last_submessage(sh) THEN "ReadingHeader" ELSE st
             id   == sh.submessage_id
         IN  CASE id = ACKNACK        -> decode_ACKNACK(recv, st1, sh, rest)
               [] id = DATA           -> decode_DATA(recv, st1, sh, rest)
               [] id = DATA_FRAG      -> decode_DATA(recv, st1, sh, rest)
               [] id = GAP            -> decode_GAP(recv, st1, sh, rest)
               [] id = NACK_FRAG      -> decode_NACK_FRAG(recv, st1, sh, rest)
               [] id = HEARTBEAT      -> decode_HEARTBEAT(recv, st1, sh, rest)
               [] id = HEARTBEAT_FRAG -> decode_HEARTBEAT_FRAG(recv, st1, sh, rest)
               [] id = INFO_SRC       -> decode_INFO_SRC(recv, st1, sh, rest)
               [] id = INFO_DST       -> decode_INFO_DST(recv, st1, sh, rest)
               [] id = INFO_REPLAY    -> decode_INFO_REPLAY(recv, st1, sh, rest)
               [] id = INFO_TS        -> decode_INFO_TS(recv, st1, sh, rest)
               [] id = PAD            -> decode_PAD(recv, st1, sh, rest)
               [] OTHER               -> decode_unknown(recv, st1, sh, rest)

\* MessageReceiver::decode.
decode(recv, st, buf) ==
    IF st = "ReadingHeader" THEN decode_ReadingHeader(recv, st, buf)
    ELSE decode_ReadingSubmessage(recv, st, buf)

-----------------------------------------------------------------------------
(* Inputs: what encode_message! composes, and some malformed variants *)

\* A message header as a unit of input.  info is the value it was encoded
\* from, wf whether the unit is well-formed.
HeaderUnit(h, wf) ==
    [class |-> "header", sh |-> <<>>, info |-> h, note |-> <<>>, wf |-> wf,
     wire |-> Write("Header", h, NATIVE)]

\* A submessage as a unit of input: its header, the body bytes that follow
\* it, the value the body was encoded from, and for an entity submessage the
\* notification it stands for.
SubmessageUnit(class, sh, body, info, note, wf) ==
    [class |-> class, sh |-> sh, info |-> info, note |-> note, wf |-> wf,
     wire |-> SubmessageHeader_write(sh) \o body]

SubmessageHeader(id, flags, length) ==
    [submessage_id |-> id, flags |-> flags, submessage_length |-> length]

GuidPrefix42 == [i \in 1..12 |-> 66]

WiresharkSourcePrefix == <<1, 15, 187, 29, 223, 43, 0, 0, 0, 0, 0, 0>>

WiresharkDestPrefix == <<1, 15, 187, 29, 230, 43, 0, 0, 0, 0, 0, 0>>

WiresharkHeader ==
    [protocol_id |-> PROTOCOL_RTPS, protocol_version |-> PROTOCOLVERSION_2_1,
     vendor_id |-> <<1, 15>>, guid_prefix |-> WiresharkSourcePrefix]

TimeOneFive == [seconds |-> U32(1), fraction |-> U32(5)]

InfoSourceValue ==
    [protocol_version |-> PROTOCOLVERSION_2_1, vendor_id |-> <<1, 15>>,
     guid_prefix |-> GuidPrefix42]

LocatorLocalhost ==
    [kind |-> LOCATOR_KIND_UDPv4, address |-> Zeros(12) \o <<127, 0, 0, 1>>, port |-> U32(8080)]

AckNackValue(count) ==
    [reader_id |-> ENTITYID_SEDP_BUILTIN_SUBSCRIPTIONS_READER,
     writer_id |-> ENTITYID_SEDP_BUILTIN_SUBSCRIPTIONS_WRITER,
     reader_sn_state |-> SequenceNumberSet_new(SequenceNumber_from(0)),
     count |-> U32(count)]

GapValue ==
    [reader_id |-> ENTITYID_P2P_BUILTIN_PARTICIPANT_MESSAGE_READER,
     writer_id |-> ENTITYID_P2P_BUILTIN_PARTICIPANT_MESSAGE_WRITER,
     gap_start |-> SequenceNumber_from(42),
     gap_list |-> [base |-> SequenceNumber_from(180), set |-> [num_bits |-> U32(32), bitmap |-> <<U32(9562)>>]]]

HeartbeatValue ==
    [reader_id |-> ENTITYID_P2P_BUILTIN_PARTICIPANT_MESSAGE_READER,
     writer_id |-> ENTITYID_P2P_BUILTIN_PARTICIPANT_MESSAGE_WRITER,
     first_sn |-> SequenceNumber_from(7), last_sn |-> SequenceNumber_from(11), count |-> U32(99)]

HeartbeatFragValue ==
    [reader_id |-> ENTITYID_P2P_BUILTIN_PARTICIPANT_MESSAGE_READER,
     writer_id |-> ENTITYID_P2P_BUILTIN_PARTICIPANT_MESSAGE_WRITER,
     writer_sn |-> SequenceNumber_from(36), last_fragment_num |-> U32(33), count |-> U32(12345)]

NackFragValue ==
    [reader_id |-> ENTITYID_P2P_BUILTIN_PARTICIPANT_MESSAGE_READER,
     writer_id |-> ENTITYID_P2P_BUILTIN_PARTICIPANT_MESSAGE_WRITER,
     writer_sn |-> SequenceNumber_from(69), fragment_number_state |-> FragmentNumberSet_new(U32(96)),
     count |-> U32(54321)]

InfoTsUnit(flags, t) ==
    SubmessageUnit("INFO_TS", SubmessageHeader(INFO_TS, flags, 8),
                   Write("Time_t", t, endianness_flag(flags)), t, <<>>, TRUE)

InfoDstUnit(flags, prefix) ==
    SubmessageUnit("INFO_DST", SubmessageHeader(INFO_DST, flags, 12), prefix, prefix, <<>>, TRUE)

InfoReplyUnit(flags, unicast, multicast) ==
    LET e    == endianness_flag(flags)
        body == Write("LocatorList_t", unicast, e) \o
                (IF is_flag_set(flags, 2) THEN Write("LocatorList_t", multicast, e) ELSE <<>>)
    IN  SubmessageUnit("INFO_REPLY", SubmessageHeader(INFO_REPLAY, flags, Len(body)), body,
                       [unicast |-> unicast, multicast |-> multicast], <<>>, TRUE)

AckNackUnit(flags, v) ==
    LET body == Write("AckNack", v, endianness_flag(flags))
    IN  SubmessageUnit("entity", SubmessageHeader(ACKNACK, flags, Len(body)), body, v,
                       <<"AckNack", v, flags>>, TRUE)

GapUnit(flags, v) ==
    LET body == Write("Gap", v, endianness_flag(flags))
    IN  SubmessageUnit("entity", SubmessageHeader(GAP, flags, Len(body)), body, v,
                       <<"Gap", v>>, TRUE)

HeartbeatUnit(flags, v) ==
    LET body == Write("Heartbeat", v, endianness_flag(flags))
    IN  SubmessageUnit("entity", SubmessageHeader(HEARTBEAT, flags, Len(body)), body, v,
                       <<"Heartbeat", v, flags>>, TRUE)

HeartbeatFragUnit(flags, v) ==
    LET body == Write("HeartbeatFrag", v, endianness_flag(flags))
    IN  SubmessageUnit("entity", SubmessageHeader(HEARTBEAT_FRAG, flags, Len(body)), body, v,
                       <<"HeartbeatFrag", v>>, TRUE)

NackFragUnit(flags, v) ==
    LET body == Write("NackFrag", v, endianness_flag(flags))
    IN  SubmessageUnit("entity", SubmessageHeader(NACK_FRAG, flags, Len(body)), body, v,
                       <<"NackFrag", v>>, TRUE)

\* The units an input is composed of.  1..4 are message headers; 5..14 the
\* interpreter submessages; 15..20 the entity submessages; the rest are
\* kinds the receiver does not decode (128 is a vendor-specific kind it has
\* no arm for) and malformed submessages; 27 is an INFO_DST whose declared
\* length holds four bytes more than the prefix.  From 28 on, the special
\* cases: an INFO_SRC body with four unused bytes in front, as the protocol
\* lays it out; an INFO_REPLY whose multicast list is cut short; submessages
\* whose header says length 0 while a body follows; and units that end
\* before the bytes their reader takes (half a message header, half a
\* submessage header, a body shorter than the declared length).
Menu ==
    << HeaderUnit(Header_new(GUIDPREFIX_UNKNOWN), TRUE),
       HeaderUnit(WiresharkHeader, TRUE),
       HeaderUnit([WiresharkHeader EXCEPT !.protocol_id = <<82, 84, 80, 88>>], FALSE),
       HeaderUnit([WiresharkHeader EXCEPT !.protocol_version = <<2, 0>>], FALSE),
       InfoTsUnit(0, TIME_INFINITE),
       InfoTsUnit(1, TimeOneFive),
       SubmessageUnit("INFO_TS_INVALIDATE", SubmessageHeader(INFO_TS, 2, 0), <<>>, <<>>, <<>>, TRUE),
       SubmessageUnit("INFO_SRC", SubmessageHeader(INFO_SRC, 1, 16),
                      Write("InfoSource", InfoSourceValue, "LittleEndian"), InfoSourceValue, <<>>, TRUE),
       InfoDstUnit(1, WiresharkDestPrefix),
       InfoDstUnit(0, GUIDPREFIX_UNKNOWN),
       InfoReplyUnit(3, <<LOCATOR_INVALID>>, <<LocatorLocalhost>>),
       InfoReplyUnit(0, <<LocatorLocalhost>>, <<>>),
       SubmessageUnit("PAD", SubmessageHeader(PAD, 0, 0), <<>>, <<>>, <<>>, TRUE),
       SubmessageUnit("PAD", SubmessageHeader(PAD, 1, 4), Zeros(4), <<>>, <<>>, TRUE),
       AckNackUnit(1, AckNackValue(1)),
       AckNackUnit(2, AckNackValue(2)),
       GapUnit(0, GapValue),
       HeartbeatUnit(5, HeartbeatValue),
       HeartbeatFragUnit(0, HeartbeatFragValue),
       NackFragUnit(1, NackFragValue),
       SubmessageUnit("unknown", SubmessageHeader(128, 1, 4), <<7, 7, 7, 7>>,
                      <<>>, <<>>, TRUE),
       SubmessageUnit("unknown", SubmessageHeader(128, 0, 0), <<>>, <<>>, <<>>, TRUE),
       SubmessageUnit("data", SubmessageHeader(DATA, 1, 4), Zeros(4), <<>>, <<>>, TRUE),
       SubmessageUnit("malformed", SubmessageHeader(ACKNACK, 1, 8),
                      Take(Write("AckNack", AckNackValue(1), "LittleEndian"), 8), <<>>, <<>>, FALSE),
       SubmessageUnit("malformed", SubmessageHeader(HEARTBEAT, 1, 0),
                      Write("Heartbeat", HeartbeatValue, "LittleEndian"), <<>>, <<>>, FALSE),
       SubmessageUnit("malformed", SubmessageHeader(INFO_DST, 1, 12), Take(GuidPrefix42, 6),
                      <<>>, <<>>, FALSE),
       SubmessageUnit("INFO_DST", SubmessageHeader(INFO_DST, 0, 16), GuidPrefix42 \o <<9, 9, 9, 9>>,
                      GuidPrefix42, <<>>, TRUE),
       SubmessageUnit("INFO_SRC_unused", SubmessageHeader(INFO_SRC, 1, 20),
                      Zeros(4) \o Write("InfoSource", InfoSourceValue, "LittleEndian"),
                      InfoSourceValue, <<>>, TRUE),
       SubmessageUnit("INFO_REPLY_truncated", SubmessageHeader(INFO_REPLAY, 3, 36),
                      Write("LocatorList_t", <<LocatorLocalhost>>, "LittleEndian")
                          \o WriteWord(U32(1), "LittleEndian")
                          \o Take(Write("Locator_t", LocatorLocalhost, "LittleEndian"), 4),
                      [unicast |-> <<LocatorLocalhost>>], <<>>, FALSE),
       SubmessageUnit("zero_length", SubmessageHeader(ACKNACK, 1, 0),
                      Write("AckNack", AckNackValue(1), "LittleEndian"), <<>>, <<>>, FALSE),
       SubmessageUnit("zero_length", SubmessageHeader(GAP, 0, 0),
                      Write("Gap", GapValue, "BigEndian"), <<>>, <<>>, FALSE),
       SubmessageUnit("zero_length", SubmessageHeader(HEARTBEAT, 1, 0),
                      Write("Heartbeat", HeartbeatValue, "LittleEndian"), <<>>, <<>>, FALSE),
       SubmessageUnit("zero_length", SubmessageHeader(HEARTBEAT_FRAG, 0, 0),
                      Write("HeartbeatFrag", HeartbeatFragValue, "BigEndian"), <<>>, <<>>, FALSE),
       SubmessageUnit("zero_length", SubmessageHeader(NACK_FRAG, 1, 0),
                      Write("NackFrag", NackFragValue, "LittleEndian"), <<>>, <<>>, FALSE),
       SubmessageUnit("zero_length", SubmessageHeader(INFO_SRC, 1, 0),
                      Write("InfoSource", InfoSourceValue, "LittleEndian"), <<>>, <<>>, FALSE),
       SubmessageUnit("zero_length", SubmessageHeader(INFO_DST, 1, 0), WiresharkDestPrefix,
                      <<>>, <<>>, FALSE),
       [class |-> "short", sh |-> <<>>, info |-> <<>>, note |-> <<>>, wf |-> FALSE,
        wire |-> Take(Write("Header", Header_new(GUIDPREFIX_UNKNOWN), NATIVE), 10)],
       [class |-> "short", sh |-> <<>>, info |-> <<>>, note |-> <<>>, wf |-> FALSE,
        wire |-> <<ACKNACK, 1>>],
       SubmessageUnit("short", SubmessageHeader(ACKNACK, 1, 24),
                      Take(Write("AckNack", AckNackValue(1), "LittleEndian"), 8), <<>>, <<>>, FALSE) >>

Headers == {i \in 1..Len(Menu) : Menu[i].class = "header"}

\* The special cases are composed into inputs of their own.
Cases ==
    {i \in 1..Len(Menu) :
         Menu[i].class \in {"INFO_SRC_unused", "INFO_REPLY_truncated", "zero_length", "short"}}

Submessages == ((1..Len(Menu)) \ Headers) \ Cases

\* The submessages the receiver has an arm for, well-formed.
Recognised == {"INFO_TS", "INFO_TS_INVALIDATE", "INFO_SRC", "INFO_DST", "INFO_REPLY", "PAD", "entity"}

\* The sequences of up to n submessages.
RECURSIVE SubmessageSeqs(_)
SubmessageSeqs(n) ==
    IF n = 0 THEN {<<>>}
    ELSE LET shorter == SubmessageSeqs(n - 1)
         IN  shorter \cup {Append(us, i) : us \in {x \in shorter : Len(x) = n - 1},
                                           i \in Submessages}

\* One datagram: nothing, or a valid message header followed by up to n - 1
\* submessages, or a header that fails validation and at most one submessage
\* (the receiver stays in ReadingHeader, and a further call reads what
\* follows as a header again).
Inputs(n) ==
    {<<>>}
    \cup {<<h>> \o ss : h \in {x \in Headers : Menu[x].wf}, ss \in SubmessageSeqs(n - 1)}
    \cup {<<h>> \o ss : h \in {x \in Headers : ~Menu[x].wf}, ss \in SubmessageSeqs(1)}

\* A stream of two datagrams in one buffer: a valid header and a recognised
\* submessage; then the second datagram, a header (valid or not) and a
\* recognised submessage.  Between the two there may be a submessage of
\* length 0 that ends the first datagram.
Streams ==
    {<<h1, s1>> \o t \o <<h2, s2>> :
         h1 \in {h \in Headers : Menu[h].wf},
         s1 \in {i \in Submessages : Menu[i].wf /\ Menu[i].class \in Recognised},
         t  \in {<<>>} \cup {<<i>> : i \in {j \in Submessages :
                                   /\ Menu[j].class = "unknown"
                                   /\ Menu[j].sh.submessage_length = 0}},
         h2 \in Headers,
         s2 \in {i \in Submessages : Menu[i].wf /\ Menu[i].class \in Recognised}}

\* The bytes of an input.
Wire(us) == Flatten([i \in 1..Len(us) |-> Menu[us[i]].wire])

-----------------------------------------------------------------------------
(* The state machine *)

NoCall == [tag |-> "None", item |-> <<>>, error |-> ""]

\* MessageReceiver::new(locator_kind), and a buffer for it to decode.
InitWith(inputs) ==
    /\ locator_kind \in {LOCATOR_KIND_INVALID, LOCATOR_KIND_UDPv4}
    /\ units \in inputs
    /\ receiver = Receiver_new(locator_kind)
    /\ state = "ReadingHeader"
    /\ bytes = Wire(units)
    /\ result = NoCall
    /\ prev = [receiver |-> receiver, state |-> state, len |-> Len(bytes)]
    /\ emitted = <<>>
    /\ peers = <<>>
    /\ subject = <<>>
    /\ applied = <<>>

Init == InitWith(Inputs(MaxUnits))

InitStream == InitWith(Streams)

\* One call of decode on the caller's buffer.  A caller calls until the
\* buffer drains, and a panic ends the caller.
Call ==
    /\ result.tag # "Panic"
    /\ bytes # <<>>
    /\ \E out \in {decode(receiver, state, bytes)} :
           /\ prev' = [receiver |-> receiver, state |-> state, len |-> Len(bytes)]
           /\ receiver' = out.receiver
           /\ state' = out.state
           /\ bytes' = out.bytes
           /\ result' = out.result
           /\ emitted' = IF out.result.item # <<>>
                         THEN Append(emitted, [item |-> out.result.item[1],
                                               receiver |-> out.receiver,
                                               at |-> Len(Wire(units)) - Len(bytes)])
                         ELSE emitted
           /\ UNCHANGED <<units, locator_kind, peers, subject, applied>>

DecodeHeader == state = "ReadingHeader" /\ Call

DecodeSubmessage == state = "ReadingSubmessage" /\ Call

Next == DecodeHeader \/ DecodeSubmessage

\* The receiver on one datagram.
Spec == Init /\ [][Next]_vars

\* The receiver on a stream of two datagrams.
SpecStream == InitStream /\ [][Next]_vars

\* The units that act on the receiver context alone: the default message
\* header, the well-formed INFO_TS, INFO_SRC, INFO_DST and PAD submessages,
\* and the submessage of length 0 that ends a datagram.
ContextUnits ==
    {i \in 1..Len(Menu) :
         \/ Menu[i].class = "header" /\ Menu[i].info = Header_new(GUIDPREFIX_UNKNOWN)
         \/ /\ Menu[i].wf
            /\ Menu[i].class \in {"INFO_TS", "INFO_TS_INVALIDATE", "INFO_SRC", "INFO_DST", "PAD"}
         \/ Menu[i].class = "unknown" /\ Menu[i].sh.submessage_length = 0}

\* The sequences of up to n units out of S.
RECURSIVE UnitSeqs(_, _)
UnitSeqs(S, n) ==
    IF n = 0 THEN {<<>>}
    ELSE LET shorter == UnitSeqs(S, n - 1)
         IN  shorter \cup {Append(us, i) : us \in {x \in shorter : Len(x) = n - 1}, i \in S}

\* A buffer that begins with a valid message header and goes on with up to
\* n context-changing units, further message headers among them.
ContextStreams(n) ==
    {<<h>> \o us : h \in {x \in ContextUnits : Menu[x].class = "header"},
                   us \in UnitSeqs(ContextUnits, n)}

InitContext == InitWith(ContextStreams(MaxContextUnits))

\* The receiver on a stream of context-changing units.
SpecContext == InitContext /\ [][Next]_vars

\* The receiver specifications' variables, where no single receiver runs.
NoReceiver ==
    /\ locator_kind = LOCATOR_KIND_INVALID
    /\ units = <<>>
    /\ receiver = Receiver_new(locator_kind)
    /\ state = "ReadingHeader"
    /\ bytes = <<>>
    /\ result = NoCall
    /\ prev = [receiver |-> receiver, state |-> state, len |-> 0]
    /\ emitted = <<>>

\* The units of the inputs made for the special cases: the cases, the
\* INFO_DST and INFO_REPLY submessages, those of kinds without an arm, the
\* malformed ones, one entity submessage and the default message header.
CaseUnits ==
    Cases
    \cup {i \in 1..Len(Menu) : Menu[i].class \in {"INFO_DST", "INFO_REPLY", "unknown", "malformed"}}
    \cup {i \in 1..Len(Menu) : Menu[i].class = "entity" /\ Menu[i].sh.submessage_id = NACK_FRAG}
    \cup {i \in Headers : Menu[i].info = Header_new(GUIDPREFIX_UNKNOWN)}

\* A buffer that begins with a valid message header and goes on with up to n
\* of these units; or one that begins with a header failing validation,
\* followed by a valid one and one unit; or one that holds half a header.
CaseInputs(n) ==
    {<<h>> \o us : h \in {x \in Headers : Menu[x].info = Header_new(GUIDPREFIX_UNKNOWN)},
                   us \in UnitSeqs(CaseUnits, n)}
    \cup {<<bad, h>> \o us : bad \in {x \in Headers : ~Menu[x].wf},
                             h \in {x \in Headers : Menu[x].wf},
                             us \in UnitSeqs(CaseUnits, 1)}
    \cup {<<i>> : i \in {x \in Cases : Menu[x].class = "short"}}

InitCases == InitWith(CaseInputs(MaxCaseUnits))

\* The receiver on the special cases.
SpecCases == InitCases /\ [][Next]_vars

\* The caller has a call to make: bytes remain and no call has panicked.
\* This is when Next is enabled, and a call always changes result or bytes.
CanCall == result.tag # "Panic" /\ bytes # <<>>

\* The same, with a caller that goes on calling while the buffer holds
\* bytes: weak fairness of Next, its enabling condition written as CanCall.
SpecCasesLive == InitCases /\ [][Next]_vars /\ ([]<>(~CanCall) \/ []<><<Next>>_vars)

-----------------------------------------------------------------------------
(* Number sets *)

\* A 32-bit value as its two 16-bit halves, and back.
Hi(w) == w[1] * 256 + w[2]

Lo(w) == w[3] * 256 + w[4]

FromHiLo(h, l) == <<h \div 256, h % 256, l \div 256, l % 256>>

\* a <= b for unsigned 32-bit values.
U32_le(a, b) == Hi(a) < Hi(b) \/ (Hi(a) = Hi(b) /\ Lo(a) <= Lo(b))

\* b - a for unsigned 32-bit values a <= b, as far as 65536 (more is 65536).
U32_distance(a, b) ==
    IF Hi(b) = Hi(a) THEN Lo(b) - Lo(a)
    ELSE IF Hi(b) = Hi(a) + 1 /\ Lo(b) < Lo(a) THEN 65536 + Lo(b) - Lo(a)
    ELSE 65536

\* What an operation that can panic gives.
Returned(v) == [tag |-> "Ok", val |-> v]

Panicked == [tag |-> "Panic", val |-> <<>>]

\* FragmentNumber_t + k on its u32 value, for 0 <= k < 65536.  When the sum
\* leaves the 32 bits, a build with overflow checks panics and a build
\* without them wraps.
FragmentNumber_add(a, k, overflow_checks) ==
    IF Hi(a) + (Lo(a) + k) \div 65536 < 65536
    THEN Returned(FromHiLo(Hi(a) + (Lo(a) + k) \div 65536, (Lo(a) + k) % 65536))
    ELSE IF overflow_checks THEN Panicked
    ELSE Returned(FromHiLo((Hi(a) + (Lo(a) + k) \div 65536) % 65536, (Lo(a) + k) % 65536))

\* Bit j (0 = least significant) of a 32-bit word.
BitAt(w, j) == (w[4 - (j \div 8)] \div (2 ^ (j % 8))) % 2

WithBit(w, j) == IF BitAt(w, j) = 1 THEN w ELSE [w EXCEPT ![4 - (j \div 8)] = @ + 2 ^ (j % 8)]

\* BitSetRef::insert(offset): the bitmap grows to the word that holds the
\* offset, and offset k of a word is its bit 1 << k.
BitSetRef_grown(set, words) ==
    [i \in 1..(IF words > Len(set.bitmap) THEN words ELSE Len(set.bitmap)) |->
         IF i <= Len(set.bitmap) THEN set.bitmap[i] ELSE U32(0)]

BitSetRef_insert(set, offset) ==
    [num_bits |-> U32(32 * Len(BitSetRef_grown(set, offset \div 32 + 1))),
     bitmap |-> [BitSetRef_grown(set, offset \div 32 + 1)
                     EXCEPT ![offset \div 32 + 1] = WithBit(@, offset % 32)]]

BitSetRef_contains(set, offset) ==
    /\ offset \div 32 < Len(set.bitmap)
    /\ BitAt(set.bitmap[offset \div 32 + 1], offset % 32) = 1

\* BitSetRef::len(): the number of offsets in the set.
BitSetRef_len(set) ==
    Cardinality({k \in 0..(32 * Len(set.bitmap) - 1) : BitSetRef_contains(set, k)})

\* FragmentNumberSet_t::is_in_range: the second comparison is evaluated only
\* when the first holds.
FragmentNumberSet_is_in_range(S, fragment_number, overflow_checks) ==
    IF ~U32_le(S.base, fragment_number) THEN Returned(FALSE)
    ELSE IF FragmentNumber_add(S.base, 255, overflow_checks).tag = "Panic" THEN Panicked
    ELSE Returned(U32_le(fragment_number, FragmentNumber_add(S.base, 255, overflow_checks).val))

\* Faulty variant of base_offset: offsets are counted from 1.
FragmentNumberSet_base_offset_from_one(S, fragment_number) ==
    U32_distance(S.base, fragment_number) + 1

\* FragmentNumberSet_t::base_offset.
FragmentNumberSet_base_offset(S, fragment_number) == U32_distance(S.base, fragment_number)

\* FragmentNumberSet_t::insert: the set afterwards and the value returned.
FragmentNumberSet_insert(S, fragment_number, overflow_checks) ==
    IF FragmentNumberSet_is_in_range(S, fragment_number, overflow_checks).tag = "Panic"
    THEN [tag |-> "Panic", set |-> S, val |-> <<>>]
    ELSE IF FragmentNumberSet_is_in_range(S, fragment_number, overflow_checks).val
    THEN [tag |-> "Ok",
          set |-> [S EXCEPT !.set = BitSetRef_insert(@, FragmentNumberSet_base_offset(S, fragment_number))],
          val |-> TRUE]
    ELSE [tag |-> "Ok", set |-> S, val |-> FALSE]

\* FragmentNumberSet_t::contains.
FragmentNumberSet_contains(S, fragment_number, overflow_checks) ==
    IF FragmentNumberSet_is_in_range(S, fragment_number, overflow_checks).tag = "Panic"
    THEN Panicked
    ELSE IF FragmentNumberSet_is_in_range(S, fragment_number, overflow_checks).val
    THEN Returned(BitSetRef_contains(S.set, FragmentNumberSet_base_offset(S, fragment_number)))
    ELSE Returned(FALSE)

\* Faulty variant of valid(): an empty bitmap passes.
FragmentNumberSet_valid_accepts_empty(S) ==
    U32_le(U32(1), S.base) /\ BitSetRef_len(S.set) <= 256

\* Validity for FragmentNumberSet_t.
FragmentNumberSet_valid(S) ==
    U32_le(U32(1), S.base) /\ 0 < BitSetRef_len(S.set) /\ BitSetRef_len(S.set) <= 256

\* RangedBitSet<SequenceNumber_t, i64>: the members are base .. base + 255,
\* here for sequence numbers whose low word is below 2^32 - 256.
SequenceNumberSet_is_in_range(S, sequence_number) ==
    /\ sequence_number.high = S.base.high
    /\ U32_le(S.base.low, sequence_number.low)
    /\ U32_distance(S.base.low, sequence_number.low) <= 255

SequenceNumberSet_insert(S, sequence_number) ==
    IF SequenceNumberSet_is_in_range(S, sequence_number)
    THEN [tag |-> "Ok",
          set |-> [S EXCEPT !.set = BitSetRef_insert(@, U32_distance(S.base.low, sequence_number.low))],
          val |-> TRUE]
    ELSE [tag |-> "Ok", set |-> S, val |-> FALSE]

SequenceNumberSet_contains(S, sequence_number) ==
    IF SequenceNumberSet_is_in_range(S, sequence_number)
    THEN Returned(BitSetRef_contains(S.set, U32_distance(S.base.low, sequence_number.low)))
    ELSE Returned(FALSE)

\* The set operations by the type of the set.
Set_new(type, base) ==
    IF type = "FragmentNumberSet_t" THEN FragmentNumberSet_new(base)
    ELSE SequenceNumberSet_new(base)

Set_insert(type, S, n, overflow_checks) ==
    IF type = "FragmentNumberSet_t" THEN FragmentNumberSet_insert(S, n, overflow_checks)
    ELSE SequenceNumberSet_insert(S, n)

Set_contains(type, S, n, overflow_checks) ==
    IF type = "FragmentNumberSet_t" THEN FragmentNumberSet_contains(S, n, overflow_checks)
    ELSE SequenceNumberSet_contains(S, n)

\* The number that lies k after the base (k = -1: right before it), and how
\* far a number lies after the base.
Member(type, base, k) ==
    IF type = "FragmentNumberSet_t"
    THEN FromHiLo(Hi(base) + (Lo(base) + 65536 + k) \div 65536 - 1, (Lo(base) + 65536 + k) % 65536)
    ELSE [high |-> base.high,
          low |-> FromHiLo(Hi(base.low) + (Lo(base.low) + 65536 + k) \div 65536 - 1,
                           (Lo(base.low) + 65536 + k) % 65536)]

OffsetOf(type, base, n) ==
    IF type = "FragmentNumberSet_t" THEN U32_distance(base, n)
    ELSE U32_distance(base.low, n.low)

\* The sets operated on: fragment-number sets over bases from 0 to the top
\* of the 32 bits, in builds with and without overflow checks, and
\* sequence-number sets.
SetSubjects ==
    {[type |-> "FragmentNumberSet_t", base |-> b, overflow_checks |-> c] :
         b \in {U32(0), U32(1), U32(10), U32(268435456), <<255, 255, 255, 0>>,
                <<255, 255, 255, 1>>, <<255, 255, 255, 255>>},
         c \in BOOLEAN}
    \cup {[type |-> "SequenceNumberSet_t", base |-> SequenceNumber_from(b), overflow_checks |-> TRUE] :
              b \in {0, 42, 1000}}

\* The offsets from the base at which numbers are tried: inside the range,
\* right before it and right after it.
TriedOffsets == {-1, 0, 1, 13, 31, 32, 255, 256}

\* The numbers tried on a subject: those offsets from its base that exist.
Tried(sub) ==
    {Member(sub.type, sub.base, k) :
         k \in {j \in TriedOffsets :
                    IF sub.type = "FragmentNumberSet_t"
                    THEN /\ j >= 0 \/ sub.base # U32(0)
                         /\ Hi(sub.base) + (Lo(sub.base) + 65536 + j) \div 65536 - 1 < 65536
                    ELSE j >= 0 \/ sub.base.low # U32(0)}}

InitSet ==
    /\ NoReceiver
    /\ peers = <<>>
    /\ subject \in SetSubjects
    /\ applied = [set |-> Set_new(subject.type, subject.base), members |-> {},
                  inserts |-> 0, last |-> [tag |-> "None"]]

\* One insert call, and a contains call on the same number after it.  A
\* panic ends the caller.
Insert ==
    /\ applied.inserts < MaxInserts
    /\ applied.last.tag # "Panic"
    /\ \E n \in Tried(subject) :
          \E out \in {Set_insert(subject.type, applied.set, n, subject.overflow_checks)} :
              applied' = [set |-> out.set,
                          members |-> IF out.tag = "Ok" /\ out.val
                                      THEN applied.members \cup {n} ELSE applied.members,
                          inserts |-> applied.inserts + 1,
                          last |-> [n |-> n, tag |-> out.tag, returned |-> out.val,
                                    before |-> applied.set,
                                    contains |-> Set_contains(subject.type, out.set, n,
                                                              subject.overflow_checks)]]
    /\ UNCHANGED <<receiver, state, bytes, result, prev, emitted, units, locator_kind,
                   peers, subject>>

\* A number set under insert calls.
SpecSet == InitSet /\ [][Insert]_vars

-----------------------------------------------------------------------------
(* The serialized types, written and read back *)

\* Faulty variant of the EntityId_t writer: the four bytes go out as one
\* word of the context's endianness.
EntityId_t_write_to_as_word(id, e) == WriteWord(id.entity_key \o <<id.entity_kind>>, e)

\* Writable for EntityId_t: the three key bytes, then the kind.
EntityId_t_write_to(id, e) ==
    <<id.entity_key[1], id.entity_key[2], id.entity_key[3], id.entity_kind>>

\* Readable for EntityId_t: three read_u8 for the key, one for the kind.
EntityId_t_read_from(b, e) ==
    IF Len(b) < 4 THEN Fail
    ELSE Done([entity_key |-> <<b[1], b[2], b[3]>>, entity_kind |-> b[4]], Drop(b, 4))

\* Writable and Readable for GuidPrefix_t: the twelve bytes one by one.
GuidPrefix_t_write_to(prefix, e) == [i \in 1..12 |-> prefix.entity_key[i]]

GuidPrefix_t_read_from(b, e) ==
    IF Len(b) < 12 THEN Fail
    ELSE Done([entity_key |-> [i \in 1..12 |-> b[i]]], Drop(b, 12))

\* Writable and Readable for VendorId_t: the two bytes one by one.
VendorId_t_write_to(vendor, e) == [i \in 1..2 |-> vendor.vendor_id[i]]

VendorId_t_read_from(b, e) ==
    IF Len(b) < 2 THEN Fail
    ELSE Done([vendor_id |-> [i \in 1..2 |-> b[i]]], Drop(b, 2))

\* TopicKind_t: an enum with a u32 tag; a value is [variant |-> its name].
NO_KEY == 1

WITH_KEY == 2

TopicKind_t_write_to(kind, e) ==
    WriteWord(U32(IF kind.variant = "NO_KEY" THEN NO_KEY ELSE WITH_KEY), e)

\* Faulty variant of the TopicKind_t reader: the tags are counted from 0.
TopicKind_t_read_from_zero(b, e) ==
    IF ~ReadWord(b, e).ok THEN Fail
    ELSE IF ReadWord(b, e).val = U32(NO_KEY - 1) THEN Done([variant |-> "NO_KEY"], ReadWord(b, e).rest)
    ELSE IF ReadWord(b, e).val = U32(WITH_KEY - 1) THEN Done([variant |-> "WITH_KEY"], ReadWord(b, e).rest)
    ELSE Fail

\* A tag that is no variant's is a read error.
TopicKind_t_read_from(b, e) ==
    IF ~ReadWord(b, e).ok THEN Fail
    ELSE IF ReadWord(b, e).val = U32(NO_KEY) THEN Done([variant |-> "NO_KEY"], ReadWord(b, e).rest)
    ELSE IF ReadWord(b, e).val = U32(WITH_KEY) THEN Done([variant |-> "WITH_KEY"], ReadWord(b, e).rest)
    ELSE Fail

\* write_to_vec(Endianness) and read_from_buffer(Endianness, bytes) of a
\* value on its own.
write_to_vec(type, v, e) ==
    CASE type = "EntityId_t"   -> EntityId_t_write_to(v, e)
      [] type = "GuidPrefix_t" -> GuidPrefix_t_write_to(v, e)
      [] type = "VendorId_t"   -> VendorId_t_write_to(v, e)
      [] type = "TopicKind_t"  -> TopicKind_t_write_to(v, e)
      [] OTHER                 -> Write(type, v, e)

read_from_buffer(type, b, e) ==
    CASE type = "EntityId_t"   -> EntityId_t_read_from(b, e)
      [] type = "GuidPrefix_t" -> GuidPrefix_t_read_from(b, e)
      [] type = "VendorId_t"   -> VendorId_t_read_from(b, e)
      [] type = "TopicKind_t"  -> TopicKind_t_read_from(b, e)
      [] OTHER                 -> Read(type, b, e)

\* set.insert of the numbers at the given offsets from the base, in order.
RECURSIVE InsertAll(_, _, _)
InsertAll(type, S, offsets) ==
    IF offsets = <<>> THEN S
    ELSE InsertAll(type, Set_insert(type, S, Member(type, S.base, Head(offsets)), TRUE).set,
                   Tail(offsets))

\* The offsets the tests of the sets insert.
ManualOffsets == <<1, 3, 4, 6, 8, 10, 13>>

\* The 32-bit words the values are made of.
SampleWords ==
    {U32(0), U32(1), <<90, 140, 110, 120>>, <<127, 255, 255, 255>>, <<128, 0, 0, 0>>,
     <<255, 255, 255, 255>>}

SampleBytes == {0, 1, 194, 255}

\* A value with its type; a set also with the way it was built.
Plain(type, v) == [type |-> type, v |-> v, built |-> ""]

SampleSets(type, bases) ==
    {[type |-> type, v |-> Set_new(type, b), built |-> "new"] : b \in bases}
    \cup {[type |-> type, v |-> InsertAll(type, Set_new(type, b), ManualOffsets),
            built |-> "manual"] : b \in bases}
    \cup {[type |-> type, v |-> InsertAll(type, Set_new(type, b), offs), built |-> "other"] :
              b \in bases, offs \in {<<0>>, <<31, 32>>, <<255>>, <<64, 0>>}}

\* The values serialized, type by type: those of the tests of each type, and
\* others made of the sample bytes and words.
Originals ==
 << {Plain("EntityId_t", [entity_key |-> <<a, b, c>>, entity_kind |-> k]) :
         a \in {0, 255}, b \in {0, 1}, c \in SampleBytes, k \in SampleBytes \cup {193, 199}},
    {Plain("GuidPrefix_t", [entity_key |-> p]) :
              p \in {Zeros(12), <<0, 17, 34, 51, 68, 85, 102, 119, 136, 153, 170, 187>>,
                     [i \in 1..12 |-> 255], [i \in 1..12 |-> i]}},
    {Plain("VendorId_t", [vendor_id |-> <<a, b>>]) : a \in SampleBytes, b \in SampleBytes},
    {Plain(t, [seconds |-> x, fraction |-> f]) :
              t \in {"Time_t", "Duration_t"}, x \in SampleWords,
              f \in SampleWords \cup {<<79, 42, 224, 126>>}},
    {Plain("LocatorUDPv4_t", [address |-> a, port |-> q]) :
              a \in SampleWords \cup {<<127, 0, 0, 1>>}, q \in SampleWords \cup {U32(8080)}},
    {Plain("TopicKind_t", [variant |-> k]) : k \in {"NO_KEY", "WITH_KEY"}},
    SampleSets("FragmentNumberSet_t", {U32(1), U32(42), U32(268435456)}),
    SampleSets("SequenceNumberSet_t", {SequenceNumber_from(42), SequenceNumber_from(1000)}),
    {Plain("NackFrag",
                [reader_id |-> r, writer_id |-> ENTITYID_SEDP_BUILTIN_PUBLICATIONS_WRITER,
                 writer_sn |-> SequenceNumber_from(42), fragment_number_state |-> S.v,
                 count |-> c]) :
              r \in {ENTITYID_SEDP_BUILTIN_PUBLICATIONS_READER, ENTITYID_SEDP_BUILTIN_SUBSCRIPTIONS_READER},
              S \in SampleSets("FragmentNumberSet_t", {U32(1000)}),
              c \in {U32(6), <<255, 255, 255, 250>>}} >>

InitCodec ==
    /\ NoReceiver
    /\ peers = <<>>
    /\ \E i \in DOMAIN Originals : subject \in Originals[i]
    /\ applied = [tag |-> "None"]

\* let serialized = value.write_to_vec(endianness)
Serialize ==
    /\ applied.tag = "None"
    /\ \E e \in {"LittleEndian", "BigEndian"} :
          applied' = [tag |-> "Written", endianness |-> e,
                      wire |-> write_to_vec(subject.type, subject.v, e)]
    /\ UNCHANGED <<receiver, state, bytes, result, prev, emitted, units, locator_kind,
                   peers, subject>>

\* let deserialized = read_from_buffer(endianness, &serialized)
Deserialize ==
    /\ applied.tag = "Written"
    /\ applied' = [tag |-> "Read", endianness |-> applied.endianness, wire |-> applied.wire,
                   read |-> read_from_buffer(subject.type, applied.wire, applied.endianness)]
    /\ UNCHANGED <<receiver, state, bytes, result, prev, emitted, units, locator_kind,
                   peers, subject>>

NextCodec == Serialize \/ Deserialize

\* A value written under an endianness and read back under it.
SpecCodec == InitCodec /\ [][NextCodec]_vars

-----------------------------------------------------------------------------
(* Time_t and the wallclock *)

NANOS_PER_SEC == 1000000000

\* (i64::from(fraction) * NANOS_PER_SEC) >> 32, one bit of the fraction at a
\* time from the lowest, so that no intermediate value leaves 31 bits.
RECURSIVE FractionToNanos(_, _, _)
FractionToNanos(fraction, i, acc) ==
    IF i = 32 THEN acc
    ELSE FractionToNanos(fraction, i + 1, (acc + BitAt(fraction, i) * NANOS_PER_SEC) \div 2)

\* (i64::from(subsec_nanos) << 32) / NANOS_PER_SEC by long division: the 32
\* bits of the quotient from the highest.
RECURSIVE QuotientBits(_, _)
QuotientBits(rem, n) ==
    IF n = 0 THEN <<>>
    ELSE <<IF 2 * rem >= NANOS_PER_SEC THEN 1 ELSE 0>>
             \o QuotientBits(IF 2 * rem >= NANOS_PER_SEC THEN 2 * rem - NANOS_PER_SEC ELSE 2 * rem,
                             n - 1)

ByteOfBits(bits, i) ==
    bits[8 * i - 7] * 128 + bits[8 * i - 6] * 64 + bits[8 * i - 5] * 32 + bits[8 * i - 4] * 16
        + bits[8 * i - 3] * 8 + bits[8 * i - 2] * 4 + bits[8 * i - 1] * 2 + bits[8 * i]

NanosToFraction(nanos) ==
    [i \in 1..4 |-> ByteOfBits(QuotientBits(nanos, 32), i)]

\* A SystemTime: before the epoch or not, and if not the whole seconds and
\* the nanoseconds since the epoch.
SystemTime(secs, nanos) == [before_epoch |-> FALSE, secs |-> secs, nanos |-> nanos]

BeforeEpoch == [before_epoch |-> TRUE, secs |-> U32(0), nanos |-> 0]

\* From<SystemTime> for Time_t.
Time_t_from(system_time) ==
    IF system_time.before_epoch THEN TIME_INVALID
    ELSE [seconds |-> system_time.secs, fraction |-> NanosToFraction(system_time.nanos)]

\* Faulty variant of the conversion to SystemTime: every negative seconds
\* value is refused.
SystemTime_try_from_refusing_negative(time) ==
    IF time.seconds[1] >= 128
    THEN [tag |-> "Err", error |-> "Conversion from Time_t::TIME_INVALID", val |-> <<>>]
    ELSE [tag |-> "Ok", error |-> "",
          val |-> SystemTime(time.seconds, FractionToNanos(time.fraction, 0, 0))]

\* Faulty variant of the conversion to SystemTime: the fraction is rounded
\* up to the next nanosecond.
SystemTime_try_from_rounding_up(time) ==
    IF time = TIME_INVALID
    THEN [tag |-> "Err", error |-> "Conversion from Time_t::TIME_INVALID", val |-> <<>>]
    ELSE IF time.seconds[1] >= 128 THEN [tag |-> "Panic", error |-> "", val |-> <<>>]
    ELSE [tag |-> "Ok", error |-> "",
          val |-> SystemTime(time.seconds,
                             IF FractionToNanos(time.fraction, 0, 0) + 1 < NANOS_PER_SEC
                             THEN FractionToNanos(time.fraction, 0, 0) + 1
                             ELSE FractionToNanos(time.fraction, 0, 0))]

\* TryFrom<Time_t> for SystemTime.  time.seconds as u64 sign-extends, so for
\* negative seconds UNIX_EPOCH + Duration leaves the range of SystemTime and
\* the addition panics.
SystemTime_try_from(time) ==
    IF time = TIME_INVALID
    THEN [tag |-> "Err", error |-> "Conversion from Time_t::TIME_INVALID", val |-> <<>>]
    ELSE IF time.seconds[1] >= 128 THEN [tag |-> "Panic", error |-> "", val |-> <<>>]
    ELSE [tag |-> "Ok", error |-> "",
          val |-> SystemTime(time.seconds, FractionToNanos(time.fraction, 0, 0))]

\* The seconds and fractions converted: those of the tests, the ends of the
\* ranges, and the smallest fractions.
TimeSeconds ==
    {U32(0), U32(1), <<64, 0, 0, 0>>, <<90, 140, 110, 120>>, <<127, 255, 255, 255>>,
     <<128, 0, 0, 0>>, <<255, 255, 255, 254>>, <<255, 255, 255, 255>>}

TimeFractions ==
    {U32(f) : f \in 0..18}
    \cup {<<79, 42, 224, 126>>, <<127, 255, 255, 255>>, <<128, 0, 0, 0>>,
           <<255, 255, 255, 250>>, <<255, 255, 255, 254>>, <<255, 255, 255, 255>>}

TimeSubjects ==
    {[type |-> "Time_t", v |-> [seconds |-> x, fraction |-> f]] :
         x \in TimeSeconds, f \in TimeFractions}

SystemTimeSubjects ==
    {[type |-> "SystemTime", v |-> t] :
         t \in {SystemTime(x, n) : x \in {U32(0), U32(1), <<64, 0, 0, 0>>, <<127, 255, 255, 255>>},
                                   n \in {0, 1, 2, 3, 500000000, 999999998, 999999999}}
                \cup {BeforeEpoch}}

InitTime ==
    /\ NoReceiver
    /\ peers = <<>>
    /\ subject \in TimeSubjects \/ subject \in SystemTimeSubjects
    /\ applied = [tag |-> "None"]

\* SystemTime::try_from(time)
ToSystemTime ==
    /\ subject.type = "Time_t"
    /\ applied.tag = "None"
    /\ applied' = [tag |-> "Converted", converted |-> SystemTime_try_from(subject.v)]
    /\ UNCHANGED <<receiver, state, bytes, result, prev, emitted, units, locator_kind,
                   peers, subject>>

\* Time_t::from(system_time), on a wallclock time of its own or on the one a
\* Time_t was converted to.
FromSystemTime ==
    /\ \/ /\ subject.type = "SystemTime"
          /\ applied.tag = "None"
          /\ applied' = [tag |-> "Back", converted |-> [tag |-> "None"],
                         back |-> Time_t_from(subject.v)]
       \/ /\ subject.type = "Time_t"
          /\ applied.tag = "Converted"
          /\ applied.converted.tag = "Ok"
          /\ applied' = [tag |-> "Back", converted |-> applied.converted,
                         back |-> Time_t_from(applied.converted.val)]
    /\ UNCHANGED <<receiver, state, bytes, result, prev, emitted, units, locator_kind,
                   peers, subject>>

NextTime == ToSystemTime \/ FromSystemTime

\* Time_t values converted to wallclock time and back.
SpecTime == InitTime /\ [][NextTime]_vars

-----------------------------------------------------------------------------
(* Two receivers *)

\* A MessageReceiver of its own for the datagram us, with the results its
\* decode calls have returned.
Peer_new(us) ==
    [receiver |-> Receiver_new(LOCATOR_KIND_INVALID), state |-> "ReadingHeader",
     bytes |-> Wire(us), results |-> <<>>, units |-> us]

\* A peer after a decode call with the outcome out.
Peer_after(p, out) ==
    [p EXCEPT !.receiver = out.receiver, !.state = out.state, !.bytes = out.bytes,
              !.results = Append(@, out.result)]

\* One decode call of a peer on its own buffer.
Peer_decode(p) == Peer_after(p, decode(p.receiver, p.state, p.bytes))

\* Faulty variant of a decode call among peers: the deserialization state is
\* one variable that all receivers share.
decode_on_shared_state(ps, i) ==
    [j \in DOMAIN ps |-> IF j = i THEN Peer_decode(ps[i])
                         ELSE [ps[j] EXCEPT !.state = Peer_decode(ps[i]).state]]

\* receiver i decodes: self.receiver, self.state and the buffer it was handed
\* are all the call reads and writes.
decode_on(ps, i) == [ps EXCEPT ![i] = Peer_decode(ps[i])]

\* The units the two receivers' datagrams are made of: a little-endian
\* INFO_TS, a big-endian GAP, a submessage that ends the datagram and a
\* malformed ACKNACK.
PairUnits ==
    {i \in Submessages :
         \/ Menu[i].class = "INFO_TS" /\ Menu[i].sh.flags = 1
         \/ Menu[i].wf /\ Menu[i].sh.submessage_id = GAP
         \/ Menu[i].class = "unknown" /\ Menu[i].sh.submessage_length = 0
         \/ Menu[i].class = "malformed" /\ Menu[i].sh.submessage_id = ACKNACK}

PairInputs(n) ==
    {<<h>> \o us : h \in {x \in Headers : Menu[x].info = Header_new(GUIDPREFIX_UNKNOWN)},
                   us \in UnitSeqs(PairUnits, n)}

InitPair ==
    /\ NoReceiver
    /\ peers \in {<<Peer_new(a), Peer_new(b)>> : a, b \in PairInputs(MaxPairUnits)}
    /\ subject = <<>>
    /\ applied = <<>>

\* The caller of receiver i calls decode; callers call until their buffer
\* drains, and a panic ends a caller.
DecodeOn(i) ==
    /\ peers[i].bytes # <<>>
    /\ \A k \in 1..Len(peers[i].results) : peers[i].results[k].tag # "Panic"
    /\ peers' = decode_on(peers, i)
    /\ UNCHANGED <<receiver, state, bytes, result, prev, emitted, units, locator_kind,
                   subject, applied>>

NextPair == \E i \in 1..2 : DecodeOn(i)

\* Two receivers driven in any interleaving.
SpecPair == InitPair /\ [][NextPair]_vars

-----------------------------------------------------------------------------
(* Reading a run against its input *)

\* The number of bytes the first n units of an input make.
RECURSIVE WireLen(_, _)
WireLen(us, n) == IF n = 0 THEN 0 ELSE Len(Menu[us[n]].wire) + WireLen(us, n - 1)

\* The offset in the input at which unit i begins.
Offset(us, i) == WireLen(us, i - 1)

\* Whether decode has been called, the offset at which the last call began,
\* and the buffer it was given.
Called == result.tag # "None"

StartedAt == WireLen(units, Len(units)) - prev.len

PrevBytes == Drop(Wire(units), StartedAt)

\* The last call began at the first byte of unit i.
CalledAt(i) == Called /\ i \in 1..Len(units) /\ Offset(units, i) = StartedAt

\* The last call read a submessage header; the header it read.
ReadSubmessageHeader == Called /\ prev.state = "ReadingSubmessage" /\ prev.len >= 4

LastHeader == SubmessageHeader_read(Take(PrevBytes, 4))

\* The last call decoded unit i as a submessage.
SubmessageCallAt(i) == CalledAt(i) /\ prev.state = "ReadingSubmessage"

\* The last call decoded unit i as a message header.
HeaderCallAt(i) == CalledAt(i) /\ prev.state = "ReadingHeader"

\* What the context is to be after a unit, by the unit's value: the
\* reference the receiver is compared with.
ApplyUnit(u, r) ==
    CASE u.class = "header" ->
             [r EXCEPT !.source_version = u.info.protocol_version,
                       !.source_vendor_id = u.info.vendor_id,
                       !.source_guid_prefix = u.info.guid_prefix,
                       !.have_timestamp = FALSE]
      [] u.class = "INFO_TS" -> [r EXCEPT !.have_timestamp = TRUE, !.timestamp = u.info]
      [] u.class = "INFO_TS_INVALIDATE" -> [r EXCEPT !.have_timestamp = FALSE]
      [] u.class = "INFO_SRC" ->
             [r EXCEPT !.source_version = u.info.protocol_version,
                       !.source_vendor_id = u.info.vendor_id,
                       !.source_guid_prefix = u.info.guid_prefix,
                       !.unicast_reply_locator_list = <<LOCATOR_INVALID>>,
                       !.multicast_reply_locator_list = <<LOCATOR_INVALID>>,
                       !.have_timestamp = FALSE]
      [] u.class = "INFO_DST" ->
             IF u.info # GUIDPREFIX_UNKNOWN THEN [r EXCEPT !.dest_guid_prefix = u.info] ELSE r
      [] u.class = "INFO_REPLY" ->
             [r EXCEPT !.unicast_reply_locator_list = u.info.unicast,
                       !.multicast_reply_locator_list = u.info.multicast]
      [] OTHER -> r

RECURSIVE ContextAfter(_, _, _)
ContextAfter(us, k, r0) ==
    IF k = 0 THEN r0 ELSE ApplyUnit(Menu[us[k]], ContextAfter(us, k - 1, r0))

\* The input is one datagram: a valid header followed by well-formed
\* submessages of the kinds the receiver has an arm for.
WellFormedDatagram ==
    /\ units # <<>>
    /\ Menu[units[1]].wf
    /\ \A i \in 2..Len(units) : Menu[units[i]].wf /\ Menu[units[i]].class \in Recognised

IsEntityUnit(i) == Menu[units[i]].class = "entity"

\* The positions of the entity submessages of the input, in order.
EntityPositions == SelectSeq([i \in 1..Len(units) |-> i], IsEntityUnit)

-----------------------------------------------------------------------------
(* C1 *)

\* C1: on a datagram made of a valid header followed by well-formed
\* submessages, no call fails, the notifications emitted so far are those of
\* the entity submessages in datagram order, each emitted by the call that
\* began at its submessage header and with the context every preceding
\* header and INFO_* submessage makes; once the buffer is drained every entity
\* submessage has been emitted.
C1_EmittedInDatagramOrder ==
    WellFormedDatagram =>
        /\ result.tag \in {"None", "Ok"}
        /\ Len(emitted) <= Len(EntityPositions)
        /\ \A j \in 1..Len(emitted) :
               /\ emitted[j].item = Menu[units[EntityPositions[j]]].note
               /\ emitted[j].at = Offset(units, EntityPositions[j])
               /\ emitted[j].receiver =
                      ContextAfter(units, EntityPositions[j], Receiver_new(locator_kind))
        /\ (bytes = <<>> => Len(emitted) = Len(EntityPositions))

\* An INFO_TS and then an entity submessage were decoded to the end of the
\* buffer: the notification was emitted under the timestamp of the INFO_TS.
C1_Witness ==
    /\ WellFormedDatagram
    /\ Len(units) = 3
    /\ Menu[units[2]].class = "INFO_TS"
    /\ bytes = <<>>
    /\ Len(emitted) = 1
    /\ emitted[1].receiver.have_timestamp
    /\ emitted[1].receiver.timestamp = Menu[units[2]].info

-----------------------------------------------------------------------------
(* C2 *)

\* The input is two datagrams, each a valid header followed by a recognised
\* submessage whose length field is not zero.
TwoDatagrams ==
    /\ Len(units) = 4
    /\ \A i \in {1, 3} : Menu[units[i]].class = "header" /\ Menu[units[i]].wf
    /\ \A i \in {2, 4} : /\ Menu[units[i]].class \in Recognised
                         /\ Menu[units[i]].wf
                         /\ Menu[units[i]].sh.submessage_length > 0

\* C2: on a stream of two such datagrams no call fails, the call that begins
\* at the second datagram decodes its first 20 bytes as a message header and
\* takes the source fields from it, and the entity submessages of both
\* datagrams are emitted in order.
C2_SecondDatagramDecoded ==
    TwoDatagrams =>
        /\ result.tag \in {"None", "Ok"}
        /\ (CalledAt(3) =>
               /\ prev.state = "ReadingHeader"
               /\ result = OkNone
               /\ bytes = Drop(PrevBytes, 20)
               /\ receiver.source_version = Menu[units[3]].info.protocol_version
               /\ receiver.source_vendor_id = Menu[units[3]].info.vendor_id
               /\ receiver.source_guid_prefix = Menu[units[3]].info.guid_prefix)
        /\ \A j \in 1..Len(emitted) :
               /\ j <= Len(EntityPositions)
               /\ emitted[j].item = Menu[units[EntityPositions[j]]].note
        /\ (bytes = <<>> => Len(emitted) = Len(EntityPositions))

-----------------------------------------------------------------------------
(* C3 *)

\* C3: a call returns at most one notification; none when it parses a
\* message header or processes INFO_SRC, INFO_DST, INFO_REPLY, INFO_TS or
\* PAD; exactly one when it processes a well-formed ACKNACK, GAP, HEARTBEAT,
\* HEARTBEAT_FRAG or NACK_FRAG.
C3_AtMostOnePerCall ==
    /\ Len(result.item) <= 1
    /\ (Called /\ prev.state = "ReadingHeader" => result.item = <<>>)
    /\ (/\ ReadSubmessageHeader
        /\ LastHeader.submessage_id \in {INFO_SRC, INFO_DST, INFO_REPLAY, INFO_TS, PAD}
        => result.item = <<>>)
    /\ \A i \in 1..Len(units) :
           SubmessageCallAt(i) /\ IsEntityUnit(i)
           => result.tag = "Ok" /\ Len(result.item) = 1

\* A call on a well-formed GAP returned one notification, after a call on an
\* interpreter submessage that returned none.
C3_Witness ==
    \E i \in 2..Len(units) :
        /\ SubmessageCallAt(i)
        /\ Menu[units[i]].sh.submessage_id = GAP
        /\ Menu[units[i - 1]].class \in {"INFO_SRC", "INFO_DST", "INFO_REPLY", "INFO_TS", "PAD"}
        /\ Len(result.item) = 1
        /\ Len(emitted) = 1

-----------------------------------------------------------------------------
(* C4 *)

\* C4: a call in ReadingHeader on a valid header consumes exactly the 20
\* header bytes, stores the header's version, vendor id and GUID prefix in
\* the source fields, sets have_timestamp to false, moves to
\* ReadingSubmessage and emits nothing.
C4_ValidHeader ==
    \A i \in 1..Len(units) :
        HeaderCallAt(i) /\ Menu[units[i]].class = "header" /\ Menu[units[i]].wf
        => /\ bytes = Drop(PrevBytes, 20)
           /\ receiver.source_version = Menu[units[i]].info.protocol_version
           /\ receiver.source_vendor_id = Menu[units[i]].info.vendor_id
           /\ receiver.source_guid_prefix = Menu[units[i]].info.guid_prefix
           /\ receiver.have_timestamp = FALSE
           /\ state = "ReadingSubmessage"
           /\ result = OkNone

\* The header of a second datagram was decoded by a receiver that held a
\* timestamp and another source.
C4_Witness ==
    \E i \in 2..Len(units) :
        /\ HeaderCallAt(i)
        /\ Menu[units[i]].class = "header"
        /\ Menu[units[i]].wf
        /\ prev.receiver.have_timestamp
        /\ prev.receiver.source_guid_prefix # Menu[units[i]].info.guid_prefix
        /\ receiver.source_guid_prefix = Menu[units[i]].info.guid_prefix
        /\ state = "ReadingSubmessage"

-----------------------------------------------------------------------------
(* C5 *)

\* The 20 bytes do not make a valid header: the magic is not "RTPS" or the
\* protocol version is below 2.1.
FailsValidation(b) ==
    \/ SubSeq(b, 1, 4) # <<82, 84, 80, 83>>
    \/ b[5] < 2
    \/ (b[5] = 2 /\ b[6] < 1)

\* C5: a call in ReadingHeader on a header that fails validation returns an
\* InvalidData error and leaves the state in ReadingHeader.
C5_InvalidHeader ==
    Called /\ prev.state = "ReadingHeader" /\ prev.len >= 20 /\ FailsValidation(Take(PrevBytes, 20))
    => result = Err("InvalidData") /\ state = "ReadingHeader"

\* A header with the magic "RTPS" and protocol version 2.0 was refused.
C5_Witness ==
    /\ Called
    /\ prev.state = "ReadingHeader"
    /\ prev.len >= 20
    /\ SubSeq(PrevBytes, 1, 6) = <<82, 84, 80, 83, 2, 0>>
    /\ result.tag = "Err"
    /\ state = "ReadingHeader"

-----------------------------------------------------------------------------
(* C6 *)

\* C6: after a call that read a submessage header of length 0, the state is
\* ReadingHeader if the kind is neither INFO_TS nor PAD; for INFO_TS and PAD
\* the state is still ReadingSubmessage and the buffer stands at the
\* submessage header that follows.
C6_LastSubmessage ==
    ReadSubmessageHeader /\ LastHeader.submessage_length = 0
    => IF LastHeader.submessage_id \in {INFO_TS, PAD}
       THEN state = "ReadingSubmessage" /\ bytes = Drop(PrevBytes, 4)
       ELSE state = "ReadingHeader"

\* A PAD of length 0 was followed by an entity submessage, which the next
\* call decoded and emitted.
C6_Witness ==
    \E i \in 2..Len(units) :
        /\ Menu[units[i - 1]].class = "PAD"
        /\ Menu[units[i - 1]].sh.submessage_length = 0
        /\ SubmessageCallAt(i)
        /\ IsEntityUnit(i)
        /\ result.item = <<Menu[units[i]].note>>

-----------------------------------------------------------------------------
(* C7 *)

\* C7: when the body of a submessage fails to parse, the call returns an
\* error and the state is ReadingHeader for the next call.
C7_BodyErrorResets ==
    Called /\ prev.state = "ReadingSubmessage" /\ result.tag = "Err"
    => state = "ReadingHeader"

-----------------------------------------------------------------------------
(* C8 *)

\* C8: a call on a submessage of unknown kind consumes the 4 header bytes
\* and the submessage_length body bytes, emits nothing and leaves the
\* context unchanged.
C8_UnknownSkipped ==
    \A i \in 1..Len(units) :
        SubmessageCallAt(i) /\ Menu[units[i]].class = "unknown"
        => /\ bytes = Drop(PrevBytes, 4 + Menu[units[i]].sh.submessage_length)
           /\ result = OkNone
           /\ receiver = prev.receiver

-----------------------------------------------------------------------------
(* C9 *)

\* The name of the notification an entity submessage is emitted as.
NotificationOf(id) ==
    CASE id = ACKNACK        -> "AckNack"
      [] id = GAP            -> "Gap"
      [] id = HEARTBEAT      -> "Heartbeat"
      [] id = HEARTBEAT_FRAG -> "HeartbeatFrag"
      [] id = NACK_FRAG      -> "NackFrag"

\* C9: a call on a well-formed ACKNACK, GAP, HEARTBEAT, HEARTBEAT_FRAG or
\* NACK_FRAG consumes the header and exactly submessage_length body bytes and
\* emits a notification of that kind with the fields the body was encoded
\* from; for ACKNACK and HEARTBEAT the notification carries the flag byte of
\* the submessage header.
C9_EntityDecoded ==
    \A i \in 1..Len(units) :
        SubmessageCallAt(i) /\ IsEntityUnit(i)
        => /\ bytes = Drop(PrevBytes, 4 + Menu[units[i]].sh.submessage_length)
           /\ result.tag = "Ok"
           /\ Len(result.item) = 1
           /\ result.item[1][1] = NotificationOf(Menu[units[i]].sh.submessage_id)
           /\ result.item[1][2] = Menu[units[i]].info
           /\ IF Menu[units[i]].sh.submessage_id \in {ACKNACK, HEARTBEAT}
              THEN Len(result.item[1]) = 3 /\ result.item[1][3] = Menu[units[i]].sh.flags
              ELSE Len(result.item[1]) = 2

\* A big-endian GAP was decoded and emitted with the fields it was encoded
\* from.
C9_Witness ==
    \E i \in 1..Len(units) :
        /\ SubmessageCallAt(i)
        /\ Menu[units[i]].sh.submessage_id = GAP
        /\ endianness_flag(Menu[units[i]].sh.flags) = "BigEndian"
        /\ result.item = <<<<"Gap", GapValue>>>>

-----------------------------------------------------------------------------
(* C10 *)

\* C10: a call on a well-formed INFO_SRC stores the body's version, vendor
\* id and GUID prefix in the source fields, makes both reply locator lists
\* the one-element list [LOCATOR_INVALID] whatever kind the receiver was
\* constructed with, sets have_timestamp to false and emits nothing.
C10_InfoSource ==
    \A i \in 1..Len(units) :
        SubmessageCallAt(i) /\ Menu[units[i]].class = "INFO_SRC"
        => /\ receiver.source_version = Menu[units[i]].info.protocol_version
           /\ receiver.source_vendor_id = Menu[units[i]].info.vendor_id
           /\ receiver.source_guid_prefix = Menu[units[i]].info.guid_prefix
           /\ receiver.unicast_reply_locator_list = <<LOCATOR_INVALID>>
           /\ receiver.multicast_reply_locator_list = <<LOCATOR_INVALID>>
           /\ receiver.have_timestamp = FALSE
           /\ result = OkNone

\* An INFO_SRC was decoded by a receiver constructed with the UDPv4 kind that
\* held a timestamp.
C10_Witness ==
    \E i \in 1..Len(units) :
        /\ SubmessageCallAt(i)
        /\ Menu[units[i]].class = "INFO_SRC"
        /\ locator_kind = LOCATOR_KIND_UDPv4
        /\ prev.receiver.unicast_reply_locator_list[1].kind = LOCATOR_KIND_UDPv4
        /\ prev.receiver.have_timestamp
        /\ receiver.unicast_reply_locator_list = <<LOCATOR_INVALID>>
        /\ ~receiver.have_timestamp

\* C11: a successfully decoded INFO_DST stores the incoming prefix as
\* dest_guid_prefix exactly when that prefix is not GUIDPREFIX_UNKNOWN, and
\* keeps the previous one otherwise; nothing is emitted and no other field of
\* the context changes.
C11_InfoDestination ==
    \A i \in 1..Len(units) :
        SubmessageCallAt(i) /\ Menu[units[i]].class = "INFO_DST"
        => /\ result = OkNone
           /\ receiver = IF Menu[units[i]].info # GUIDPREFIX_UNKNOWN
                         THEN [prev.receiver EXCEPT !.dest_guid_prefix = Menu[units[i]].info]
                         ELSE prev.receiver

\* An INFO_DST carrying GUIDPREFIX_UNKNOWN has been decoded after one that
\* set a destination, and the destination is still the earlier one.
C11_Witness ==
    \E i \in 3..Len(units) :
        /\ SubmessageCallAt(i)
        /\ Menu[units[i]].class = "INFO_DST"
        /\ Menu[units[i]].info = GUIDPREFIX_UNKNOWN
        /\ Menu[units[i - 1]].class = "INFO_DST"
        /\ receiver.dest_guid_prefix = Menu[units[i - 1]].info
        /\ receiver.dest_guid_prefix # GUIDPREFIX_UNKNOWN

\* C12: a successfully decoded INFO_REPLY stores the first locator list of
\* its body as unicast_reply_locator_list, and as
\* multicast_reply_locator_list the list that follows it when flag 0x02 is
\* set and the empty list otherwise; nothing is emitted.
C12_InfoReply ==
    \A i \in 1..Len(units) :
        SubmessageCallAt(i) /\ Menu[units[i]].class = "INFO_REPLY"
        => /\ result = OkNone
           /\ receiver.unicast_reply_locator_list = Menu[units[i]].info.unicast
           /\ receiver.multicast_reply_locator_list =
                  IF is_flag_set(Menu[units[i]].sh.flags, 2)
                  THEN Menu[units[i]].info.multicast
                  ELSE <<>>

\* Both forms have been decoded one after the other: the INFO_REPLY without
\* the multicast flag emptied the multicast list the flagged one had stored.
C12_Witness ==
    \E i \in 3..Len(units) :
        /\ SubmessageCallAt(i)
        /\ Menu[units[i]].class = "INFO_REPLY"
        /\ ~is_flag_set(Menu[units[i]].sh.flags, 2)
        /\ Menu[units[i - 1]].class = "INFO_REPLY"
        /\ prev.receiver.multicast_reply_locator_list = <<LocatorLocalhost>>
        /\ receiver.multicast_reply_locator_list = <<>>
        /\ receiver.unicast_reply_locator_list = <<LocatorLocalhost>>

\* C13: an INFO_TS with the InvalidateFlag clear has its 8-byte timestamp
\* parsed and stored and sets have_timestamp; one with the InvalidateFlag set
\* clears have_timestamp and consumes no byte after the submessage header;
\* neither emits anything.
C13_InfoTimestamp ==
    /\ \A i \in 1..Len(units) :
           SubmessageCallAt(i) /\ Menu[units[i]].class = "INFO_TS"
           => /\ result = OkNone
              /\ receiver = [prev.receiver EXCEPT !.have_timestamp = TRUE,
                                                  !.timestamp = Menu[units[i]].info]
              /\ bytes = Drop(PrevBytes, 4 + 8)
    /\ ReadSubmessageHeader /\ LastHeader.submessage_id = INFO_TS
                            /\ is_flag_set(LastHeader.flags, 2)
       => /\ result = OkNone
          /\ receiver = [prev.receiver EXCEPT !.have_timestamp = FALSE]
          /\ bytes = Drop(PrevBytes, 4)

\* A timestamp was stored and the next INFO_TS invalidated it: the flag is
\* down, the stored value is still there.
C13_Witness ==
    \E i \in 3..Len(units) :
        /\ SubmessageCallAt(i)
        /\ Menu[units[i]].class = "INFO_TS_INVALIDATE"
        /\ Menu[units[i - 1]].class = "INFO_TS"
        /\ prev.receiver.have_timestamp
        /\ ~receiver.have_timestamp
        /\ receiver.timestamp = Menu[units[i - 1]].info
        /\ receiver.timestamp # TIME_INVALID

\* C14: a PAD advances the buffer past its submessage_length body bytes,
\* emits nothing and leaves the receiver context as it was.
C14_Pad ==
    ReadSubmessageHeader /\ LastHeader.submessage_id = PAD /\ result.tag # "Panic"
    => /\ bytes = Drop(PrevBytes, 4 + LastHeader.submessage_length)
       /\ result = OkNone
       /\ receiver = prev.receiver

\* A PAD with a body has been skipped in a context that differs from the
\* initial one.
C14_Witness ==
    \E i \in 3..Len(units) :
        /\ SubmessageCallAt(i)
        /\ Menu[units[i]].class = "PAD"
        /\ Menu[units[i]].sh.submessage_length = 4
        /\ Len(bytes) = prev.len - 8
        /\ receiver.have_timestamp
        /\ result = OkNone

\* The last call parsed a message header successfully.
HeaderParsed == Called /\ prev.state = "ReadingHeader" /\ result.tag = "Ok"

\* The last call decoded a submessage of kind id successfully.
SubmessageDecoded(id) ==
    ReadSubmessageHeader /\ result.tag = "Ok" /\ LastHeader.submessage_id = id

\* A stream in which every unit is met at its first byte: a further message
\* header follows a submessage that ends the datagram, and nothing else does.
CleanStream ==
    \A i \in 2..Len(units) :
        Menu[units[i]].class = "header"
        <=> Menu[units[i - 1]].class = "unknown"

\* Whether the most recent unit among message headers, INFO_SRC and INFO_TS
\* in the first k units of us is an INFO_TS with the InvalidateFlag clear.
RECURSIVE TimestampStands(_, _)
TimestampStands(us, k) ==
    IF k = 0 THEN FALSE
    ELSE IF Menu[us[k]].class = "INFO_TS" THEN TRUE
    ELSE IF Menu[us[k]].class \in {"header", "INFO_SRC", "INFO_TS_INVALIDATE"} THEN FALSE
    ELSE TimestampStands(us, k - 1)

\* C15: have_timestamp is true only if the most recent successfully decoded
\* unit among message header, INFO_SRC and INFO_TS was an INFO_TS with the
\* InvalidateFlag clear; it is false initially, after every successful header
\* parse, after every INFO_SRC and after every INFO_TS with the
\* InvalidateFlag set.
C15_HaveTimestamp ==
    /\ ~Called => ~receiver.have_timestamp
    /\ HeaderParsed => ~receiver.have_timestamp
    /\ SubmessageDecoded(INFO_SRC) => ~receiver.have_timestamp
    /\ SubmessageDecoded(INFO_TS)
       => receiver.have_timestamp = ~is_flag_set(LastHeader.flags, 2)
    /\ Called /\ ~HeaderParsed /\ ~SubmessageDecoded(INFO_SRC) /\ ~SubmessageDecoded(INFO_TS)
       => receiver.have_timestamp = prev.receiver.have_timestamp
    /\ \A i \in 1..Len(units) :
           CleanStream /\ CalledAt(i)
           => receiver.have_timestamp = TimestampStands(units, i)

\* Over one buffer have_timestamp was raised by an INFO_TS, survived a
\* submessage that ends the datagram and was cleared by the message header
\* of the next datagram.
C15_Witness ==
    \E i \in 4..Len(units) :
        /\ HeaderCallAt(i)
        /\ HeaderParsed
        /\ Menu[units[i - 2]].class = "INFO_TS"
        /\ prev.receiver.have_timestamp
        /\ ~receiver.have_timestamp

\* The submessages whose effect on the context does not depend on how often
\* they are decoded.
IdempotentUnits ==
    {i \in ContextUnits :
         \/ Menu[i].class \in {"PAD", "INFO_TS_INVALIDATE"}
         \/ Menu[i].class = "INFO_DST" /\ Menu[i].info = GUIDPREFIX_UNKNOWN}

\* C16: decoding a PAD, an INFO_DST carrying GUIDPREFIX_UNKNOWN or an INFO_TS
\* with the InvalidateFlag set a second time in succession leaves the
\* receiver context as the first decoding left it; only the buffer position
\* moves on.
C16_DecodedTwice ==
    [][\A i \in 2..Len(units) :
           /\ units[i - 1] \in IdempotentUnits
           /\ units[i] = units[i - 1]
           /\ SubmessageCallAt(i - 1)
           /\ result.tag = "Ok"
           /\ SubmessageCallAt(i)'
           => /\ receiver' = receiver
              /\ state' = state
              /\ result' = OkNone
              /\ bytes' = Drop(bytes, Len(Menu[units[i]].wire))]_vars

\* An INFO_TS with the InvalidateFlag set has been decoded twice after an
\* INFO_TS that had stored a timestamp.
C16_Witness ==
    \E i \in 4..Len(units) :
        /\ SubmessageCallAt(i)
        /\ units[i] \in IdempotentUnits
        /\ units[i] = units[i - 1]
        /\ Menu[units[i]].class = "INFO_TS_INVALIDATE"
        /\ Menu[units[i - 2]].class = "INFO_TS"
        /\ receiver = prev.receiver
        /\ ~receiver.have_timestamp
        /\ receiver.timestamp = Menu[units[i - 2]].info

\* The kinds whose arm takes submessage_length bytes off the buffer before it
\* reads the body.
SizedKinds ==
    {ACKNACK, GAP, HEARTBEAT, HEARTBEAT_FRAG, NACK_FRAG, INFO_SRC, INFO_DST, INFO_REPLAY, PAD}

\* C17: a successful decode call in ReadingSubmessage for ACKNACK, GAP,
\* HEARTBEAT, HEARTBEAT_FRAG, NACK_FRAG, INFO_SRC, INFO_DST, INFO_REPLY, PAD
\* or INFO_TS with the InvalidateFlag clear removes exactly
\* 4 + submessage_length bytes from the buffer: body bytes the reader does
\* not use are discarded with the submessage and no byte after the declared
\* length is touched.
C17_ExactConsumption ==
    /\ ReadSubmessageHeader
    /\ result.tag = "Ok"
    /\ \/ LastHeader.submessage_id \in SizedKinds
       \/ LastHeader.submessage_id = INFO_TS /\ ~is_flag_set(LastHeader.flags, 2)
    => bytes = Drop(PrevBytes, 4 + LastHeader.submessage_length)

\* An INFO_DST whose declared length exceeds the prefix by four bytes was
\* decoded, and the call after it met the next submessage at its first byte
\* and emitted its notification.
C17_Witness ==
    \E i \in 3..Len(units) :
        /\ SubmessageCallAt(i)
        /\ Menu[units[i - 1]].class = "INFO_DST"
        /\ Menu[units[i - 1]].sh.submessage_length = 16
        /\ prev.receiver.dest_guid_prefix = Menu[units[i - 1]].info
        /\ Menu[units[i]].class = "entity"
        /\ result = OkSome(Menu[units[i]].note)
        /\ bytes = <<>>

\* C18: a submessage header of kind DATA or DATA_FRAG never produces a
\* notification, and the decode call returns an error value to its caller.
C18_DataUnimplemented ==
    ReadSubmessageHeader /\ LastHeader.submessage_id \in {DATA, DATA_FRAG}
    => /\ result.item = <<>>
       /\ result.tag = "Err"

\* C19: the 2-byte length and the multi-byte fields of a submessage are
\* decoded in the byte order bit 0 of its own flags selects, whatever the
\* flags of the submessage before it: the header read is the header encoded,
\* the whole submessage is consumed and the value decoded is the value
\* encoded.
C19_OwnEndianness ==
    \A i \in 3..Len(units) :
        /\ SubmessageCallAt(i)
        /\ Menu[units[i]].wf
        /\ Menu[units[i]].class \in Recognised
        /\ Menu[units[i - 1]].wf
        /\ Menu[units[i - 1]].class \in Recognised
        => /\ LastHeader = Menu[units[i]].sh
           /\ result.tag = "Ok"
           /\ bytes = Drop(PrevBytes, Len(Menu[units[i]].wire))
           /\ Menu[units[i]].class = "entity" => result.item = <<Menu[units[i]].note>>
           /\ Menu[units[i]].class = "INFO_TS" => receiver.timestamp = Menu[units[i]].info
           /\ Menu[units[i]].class = "INFO_REPLY"
              => /\ receiver.unicast_reply_locator_list = Menu[units[i]].info.unicast
                 /\ is_flag_set(Menu[units[i]].sh.flags, 2)
                    => receiver.multicast_reply_locator_list = Menu[units[i]].info.multicast

\* A big-endian entity submessage has been decoded right after a
\* little-endian INFO_TS, and both values came out as encoded.
C19_Witness ==
    \E i \in 3..Len(units) :
        /\ SubmessageCallAt(i)
        /\ Menu[units[i - 1]].class = "INFO_TS"
        /\ endianness_flag(Menu[units[i - 1]].sh.flags) = "LittleEndian"
        /\ Menu[units[i]].class = "entity"
        /\ endianness_flag(Menu[units[i]].sh.flags) = "BigEndian"
        /\ receiver.timestamp = TimeOneFive
        /\ result.item = <<Menu[units[i]].note>>

\* The datagram captured from the wire.
WiresharkDatagram ==
    << 82, 84, 80, 83, 2, 1, 1, 15, 1, 15, 187, 29, 223, 43,
       0, 0, 0, 0, 0, 0, 14, 1, 12, 0, 1, 15, 187, 29,
       230, 43, 0, 0, 0, 0, 0, 0, 6, 1, 24, 0, 0, 0,
       4, 199, 0, 0, 4, 194, 0, 0, 0, 0, 0, 0, 0, 0,
       0, 0, 0, 0, 1, 0, 0, 0 >>

\* The receiver state the capture is expected to end in.
WiresharkReceiver ==
    [Receiver_new(locator_kind) EXCEPT
         !.source_guid_prefix = <<1, 15, 187, 29, 223, 43, 0, 0, 0, 0, 0, 0>>,
         !.dest_guid_prefix = <<1, 15, 187, 29, 230, 43, 0, 0, 0, 0, 0, 0>>,
         !.source_version = PROTOCOLVERSION_2_1,
         !.source_vendor_id = <<1, 15>>]

\* The notification the capture is expected to give.
WiresharkAckNack ==
    << "AckNack",
       [reader_id |-> ENTITYID_SEDP_BUILTIN_SUBSCRIPTIONS_READER,
        writer_id |-> ENTITYID_SEDP_BUILTIN_SUBSCRIPTIONS_WRITER,
        reader_sn_state |-> SequenceNumberSet_new(SequenceNumber_from(0)),
        count |-> U32(1)],
       1 >>

\* C20: decoding the 64-byte captured datagram with a fresh receiver emits
\* exactly one AckNack (SEDP subscriptions reader and writer, empty sn_state
\* with base 0, count 1, flags 0x01) and ends with the source prefix, version
\* 2.1 and vendor id of its header, the destination prefix of its INFO_DST
\* and every other context field at its initial value.
C20_CapturedDatagram ==
    Len(units) = 3 /\ Len(bytes) <= 28 /\ Wire(units) = WiresharkDatagram
    => /\ Len(emitted) <= 1
       /\ result.tag = "Ok"
       /\ bytes = <<>>
          => /\ Len(emitted) = 1
             /\ emitted[1].item = WiresharkAckNack
             /\ result = OkSome(WiresharkAckNack)
             /\ receiver = WiresharkReceiver

\* The capture has been decoded to its end.
C20_Witness ==
    /\ Wire(units) = WiresharkDatagram
    /\ bytes = <<>>
    /\ Len(emitted) = 1
    /\ receiver.dest_guid_prefix = <<1, 15, 187, 29, 230, 43, 0, 0, 0, 0, 0, 0>>

\* C22: a newly constructed receiver is in ReadingHeader with source_version
\* 2.4, source_vendor_id [0, 0], all-zero source and destination GUID
\* prefixes, have_timestamp false, timestamp {-1, 0xFFFFFFFF}, and in each
\* reply locator list exactly one locator of the configured kind with the
\* all-zero address and port 0.
C22_NewReceiver ==
    ~Called
    => /\ state = "ReadingHeader"
       /\ receiver.source_version = <<2, 4>>
       /\ receiver.source_vendor_id = <<0, 0>>
       /\ receiver.source_guid_prefix = <<0, 0, 0, 0, 0, 0, 0, 0, 0, 0, 0, 0>>
       /\ receiver.dest_guid_prefix = <<0, 0, 0, 0, 0, 0, 0, 0, 0, 0, 0, 0>>
       /\ receiver.have_timestamp = FALSE
       /\ receiver.timestamp = [seconds |-> <<255, 255, 255, 255>>,
                                fraction |-> <<255, 255, 255, 255>>]
       /\ \A list \in {receiver.unicast_reply_locator_list,
                       receiver.multicast_reply_locator_list} :
              /\ Len(list) = 1
              /\ list[1].kind = locator_kind
              /\ list[1].address = Zeros(16)
              /\ list[1].port = <<0, 0, 0, 0>>

\* A receiver constructed for UDPv4, with a datagram waiting and no call made.
C22_Witness ==
    /\ ~Called
    /\ bytes # <<>>
    /\ locator_kind = LOCATOR_KIND_UDPv4
    /\ receiver.unicast_reply_locator_list[1].kind = LOCATOR_KIND_UDPv4
    /\ receiver.multicast_reply_locator_list[1].kind = LOCATOR_KIND_UDPv4

\* The peer p after k decode calls with nothing else running.
RECURSIVE Alone(_, _)
Alone(p, k) == IF k = 0 THEN p ELSE Peer_decode(Alone(p, k - 1))

-----------------------------------------------------------------------------
(* Number sets under insert *)

\* b <= n <= b + 255 on the numbers themselves.
WithinRange(type, base, n) ==
    IF type = "FragmentNumberSet_t"
    THEN U32_le(base, n) /\ U32_distance(base, n) <= 255
    ELSE n.high = base.high /\ U32_le(base.low, n.low) /\ U32_distance(base.low, n.low) <= 255

C26_Valid ==
    subject.type = "FragmentNumberSet_t" =>
        /\ FragmentNumberSet_valid(applied.set) <=>
               /\ subject.base # U32(0)
               /\ 1 <= Cardinality(applied.members)
               /\ Cardinality(applied.members) <= 256
        /\ applied.inserts = 0 => ~FragmentNumberSet_valid(applied.set)

C26_Witness ==
    /\ subject.type = "FragmentNumberSet_t"
    /\ subject.base = U32(10)
    /\ Cardinality(applied.members) = 2
    /\ FragmentNumberSet_valid(applied.set)

\* The first bitmap word of the set's encoding under e, read as a number.
FirstWireWord(e) ==
    ReadWord(Drop(Write(subject.type, applied.set, e),
                  (IF subject.type = "FragmentNumberSet_t" THEN 4 ELSE 8) + 4), e).val

-----------------------------------------------------------------------------
(* Serialized types *)

\* C23: a value of a serialized type, written under an endianness and read
\* back from those bytes under the same endianness, is the value again, for
\* little-endian and for big-endian.
C23_RoundTrip ==
    applied.tag = "Read" =>
        /\ applied.read.ok
        /\ applied.read.val = subject.v
        /\ applied.read.rest = <<>>

C23_Witness ==
    /\ applied.tag = "Read"
    /\ subject.type = "NackFrag"
    /\ subject.v.fragment_number_state.set.bitmap = <<U32(9562)>>
    /\ applied.endianness = "BigEndian"
    /\ Len(applied.wire) = 32
    /\ applied.read.val = subject.v

\* The bytes of a value in declaration order.
DeclaredBytes(type, v) ==
    CASE type = "EntityId_t"   -> v.entity_key \o <<v.entity_kind>>
      [] type = "GuidPrefix_t" -> v.entity_key
      [] type = "VendorId_t"   -> v.vendor_id

\* C24: the encoding of an entity id, a GUID prefix or a vendor id is the
\* same under both endiannesses: the value's bytes in declaration order.
C24_EndiannessInvariant ==
    (applied.tag = "Written" /\ subject.type \in {"EntityId_t", "GuidPrefix_t", "VendorId_t"}) =>
        /\ applied.wire = DeclaredBytes(subject.type, subject.v)
        /\ \A e \in {"LittleEndian", "BigEndian"} :
               write_to_vec(subject.type, subject.v, e) = applied.wire

C24_Witness ==
    /\ applied.tag = "Written"
    /\ applied.endianness = "LittleEndian"
    /\ subject.type = "EntityId_t"
    /\ subject.v = [entity_key |-> <<0, 1, 0>>, entity_kind |-> 194]
    /\ applied.wire = <<0, 1, 0, 194>>

\* The base of a set under e.
WrittenBase(e) ==
    IF subject.type = "FragmentNumberSet_t" THEN WriteWord(subject.v.base, e)
    ELSE WriteWord(subject.v.base.high, e) \o WriteWord(subject.v.base.low, e)

\* C28: a set that was only constructed is written as its base, num_bits 0
\* and no bitmap word; a set into which the offsets 1, 3, 4, 6, 8, 10, 13
\* were inserted is written as its base, num_bits 32 and the one word
\* 0x0000255A, each under the endianness in use; for the fragment-number set
\* with base 0x10000000 and the sequence-number set with base 1000 these are
\* the bytes of the reference encodings.
C28_ReferenceEncodings ==
    (applied.tag = "Written" /\ subject.type \in {"FragmentNumberSet_t", "SequenceNumberSet_t"}) =>
        /\ subject.built = "new" =>
               applied.wire = WrittenBase(applied.endianness) \o WriteWord(U32(0), applied.endianness)
        /\ subject.built = "manual" =>
               applied.wire = WrittenBase(applied.endianness)
                                  \o WriteWord(U32(32), applied.endianness)
                                  \o WriteWord(<<0, 0, 37, 90>>, applied.endianness)
        /\ (subject.built = "manual" /\ applied.endianness = "LittleEndian"
                /\ subject.type = "FragmentNumberSet_t" /\ subject.v.base = U32(268435456)) =>
               applied.wire = <<0, 0, 0, 16, 32, 0, 0, 0, 90, 37, 0, 0>>
        /\ (subject.built = "manual" /\ applied.endianness = "LittleEndian"
                /\ subject.type = "SequenceNumberSet_t"
                /\ subject.v.base = SequenceNumber_from(1000)) =>
               applied.wire = <<0, 0, 0, 0, 232, 3, 0, 0, 32, 0, 0, 0, 90, 37, 0, 0>>
        /\ (subject.built = "new" /\ applied.endianness = "LittleEndian"
                /\ subject.type = "FragmentNumberSet_t" /\ subject.v.base = U32(42)) =>
               applied.wire = <<42, 0, 0, 0, 0, 0, 0, 0>>

C28_Witness ==
    /\ applied.tag = "Written"
    /\ applied.endianness = "LittleEndian"
    /\ subject.type = "SequenceNumberSet_t"
    /\ subject.built = "manual"
    /\ subject.v.base = SequenceNumber_from(1000)
    /\ applied.wire = <<0, 0, 0, 0, 232, 3, 0, 0, 32, 0, 0, 0, 90, 37, 0, 0>>

-----------------------------------------------------------------------------
(* Time_t and the wallclock *)

\* A Time_t with non-negative seconds, converted to wallclock time and back.
WentRoundTrip ==
    /\ subject.type = "Time_t"
    /\ applied.tag = "Back"
    /\ subject.v.seconds[1] < 128

\* C29 as stated: a Time_t with non-negative seconds other than TIME_INVALID,
\* converted to wallclock time and back, has the same seconds and a fraction
\* at most 1 away from the original's.
C29_WithinOneUnit ==
    WentRoundTrip =>
        /\ applied.back.seconds = subject.v.seconds
        /\ \/ /\ U32_le(applied.back.fraction, subject.v.fraction)
              /\ U32_distance(applied.back.fraction, subject.v.fraction) <= 1
           \/ /\ U32_le(subject.v.fraction, applied.back.fraction)
              /\ U32_distance(subject.v.fraction, applied.back.fraction) <= 1

\* C29 as amended: a Time_t with non-negative seconds other than
\* TIME_INVALID, converted to wallclock time and back, has the same seconds
\* and a fraction that is at most 5 below the original's and never above it.
C29_WithinFiveUnits ==
    WentRoundTrip =>
        /\ applied.back.seconds = subject.v.seconds
        /\ U32_le(applied.back.fraction, subject.v.fraction)
        /\ U32_distance(applied.back.fraction, subject.v.fraction) <= 5

C29_Witness ==
    /\ WentRoundTrip
    /\ subject.v = [seconds |-> <<127, 255, 255, 255>>, fraction |-> U32(17)]
    /\ applied.converted.val.nanos = 3
    /\ applied.back.fraction = U32(12)

\* C30: the conversion of TIME_INVALID to wallclock time returns an error
\* value, and of no other Time_t does it return one.
C30_OnlyInvalidFails ==
    (subject.type = "Time_t" /\ applied.tag = "Converted") =>
        (applied.converted.tag = "Err" <=> subject.v = TIME_INVALID)

C30_Witness ==
    /\ subject.type = "Time_t"
    /\ applied.tag = "Converted"
    /\ subject.v = TIME_INVALID
    /\ applied.converted.tag = "Err"
    /\ applied.converted.error = "Conversion from Time_t::TIME_INVALID"

-----------------------------------------------------------------------------
(* C31 *)

\* The last call decoded unit i, a submessage of the given class.
CaseCallAt(i, class) == SubmessageCallAt(i) /\ Menu[units[i]].class = class

\* C31: an INFO_SRC body of 20 bytes, four unused bytes followed by the
\* protocol version, the vendor id and the GUID prefix, decodes without an
\* error, and the receiver's source_version, source_vendor_id and
\* source_guid_prefix are the values that follow the four unused bytes.
C31_InfoSourceAfterUnused ==
    \A i \in 1..Len(units) :
        CaseCallAt(i, "INFO_SRC_unused")
        => /\ result.tag = "Ok"
           /\ receiver.source_version = Menu[units[i]].info.protocol_version
           /\ receiver.source_vendor_id = Menu[units[i]].info.vendor_id
           /\ receiver.source_guid_prefix = Menu[units[i]].info.guid_prefix

-----------------------------------------------------------------------------
(* C32 *)

\* The submessage header the last call read ends the message: its length is
\* 0 and its kind is neither INFO_TS nor PAD.
EndsMessage ==
    LastHeader.submessage_length = 0 /\ LastHeader.submessage_id \notin {INFO_TS, PAD}

\* C32: a call made in ReadingSubmessage that returns, with a value or with
\* an error, leaves the state ReadingHeader exactly when the submessage
\* header it read has length 0 and a kind other than INFO_TS and PAD; so a
\* body that fails to parse, a kind without an arm and the end of the bytes
\* leave the state at ReadingSubmessage when the length is not 0.
C32_StateAfterSubmessage ==
    Called /\ prev.state = "ReadingSubmessage" /\ result.tag \in {"Ok", "Err"}
    => /\ prev.len >= SubmessageHeaderMinimumBytesNeeded
       /\ state = "ReadingHeader" <=> EndsMessage

\* The body of a submessage of non-zero length failed to parse, the call
\* took the last bytes of the buffer, and the state is ReadingSubmessage.
C32_Witness ==
    /\ ReadSubmessageHeader
    /\ LastHeader.submessage_length # 0
    /\ result.tag = "Err"
    /\ bytes = <<>>
    /\ state = "ReadingSubmessage"

-----------------------------------------------------------------------------
(* C33 *)

\* C33: a call in ReadingHeader that returns an error leaves every field of
\* the receiver as it was, has removed the 20 header bytes and nothing else
\* from the buffer, and leaves the state ReadingHeader; the call that follows
\* a failed call on the first header begins at byte 20, in ReadingHeader and
\* with the context of a new receiver.
C33_FailedHeader ==
    /\ Called /\ prev.state = "ReadingHeader" /\ result.tag = "Err"
       => /\ receiver = prev.receiver
          /\ bytes = Drop(PrevBytes, HeaderMinimumBytesNeeded)
          /\ state = "ReadingHeader"
    /\ Called /\ StartedAt > 0 /\ units # <<>> /\ Menu[units[1]].class = "header" /\ ~Menu[units[1]].wf
       /\ StartedAt <= HeaderMinimumBytesNeeded
       => /\ StartedAt = HeaderMinimumBytesNeeded
          /\ prev.state = "ReadingHeader"
          /\ prev.receiver = Receiver_new(locator_kind)

\* After a header that failed validation, the next call read the 20 bytes
\* that follow as a header and took the source fields from them.
C33_Witness ==
    /\ Len(units) >= 2
    /\ ~Menu[units[1]].wf
    /\ HeaderCallAt(2)
    /\ Menu[units[2]].info.guid_prefix # GUIDPREFIX_UNKNOWN
    /\ result.tag = "Ok"
    /\ receiver.source_guid_prefix = Menu[units[2]].info.guid_prefix

-----------------------------------------------------------------------------
(* C34 *)

\* C34: when a call in ReadingSubmessage returns an error, every field of
\* the receiver has the value it had before the call; an INFO_REPLY whose
\* unicast list parses and whose multicast list does not leaves
\* unicast_reply_locator_list as it was.
C34_ErrorLeavesContext ==
    Called /\ prev.state = "ReadingSubmessage" /\ result.tag = "Err"
    => receiver = prev.receiver

-----------------------------------------------------------------------------
(* C35 *)

EntityKinds == {ACKNACK, GAP, HEARTBEAT, HEARTBEAT_FRAG, NACK_FRAG}

ContextKinds == {INFO_SRC, INFO_DST, INFO_REPLAY, INFO_TS}

\* C35: a call that read the submessage header of an ACKNACK, GAP,
\* HEARTBEAT, HEARTBEAT_FRAG or NACK_FRAG, whether it then returns a
\* notification or an error, leaves every field of the receiver as it was;
\* a call that changed the receiver read a message header or the submessage
\* header of an INFO_SRC, INFO_DST, INFO_REPLY or INFO_TS.
C35_EntityLeavesContext ==
    /\ ReadSubmessageHeader /\ LastHeader.submessage_id \in EntityKinds
       => receiver = prev.receiver
    /\ Called /\ receiver # prev.receiver
       => \/ prev.state = "ReadingHeader"
          \/ ReadSubmessageHeader /\ LastHeader.submessage_id \in ContextKinds

\* An entity submessage was decoded and emitted by a receiver whose
\* destination prefix an INFO_DST had set, and the prefix is still set.
C35_Witness ==
    /\ ReadSubmessageHeader
    /\ LastHeader.submessage_id \in EntityKinds
    /\ result.item # <<>>
    /\ prev.receiver.dest_guid_prefix # GUIDPREFIX_UNKNOWN
    /\ receiver = prev.receiver

-----------------------------------------------------------------------------
(* C36 *)

\* The buffer the last call was given held fewer bytes than the unit it was
\* to read: fewer than 20 in ReadingHeader, fewer than 4 in
\* ReadingSubmessage, or fewer after the submessage header than the header's
\* submessage_length.
ShortBuffer ==
    /\ Called
    /\ \/ prev.state = "ReadingHeader" /\ prev.len < HeaderMinimumBytesNeeded
       \/ prev.state = "ReadingSubmessage" /\ prev.len < SubmessageHeaderMinimumBytesNeeded
       \/ /\ ReadSubmessageHeader
          /\ prev.len - SubmessageHeaderMinimumBytesNeeded < LastHeader.submessage_length

\* C36: a call on a buffer that holds fewer bytes than the unit being read
\* requires returns to its caller, with Ok(None) or with an error; it does
\* not panic.
C36_ShortBufferReturns == ShortBuffer => result.tag \in {"Ok", "Err"} /\ result.item = <<>>

-----------------------------------------------------------------------------
(* C37 *)

-----------------------------------------------------------------------------
(* C38 *)

\* The kinds whose arm reads a body of fixed minimum size.
BodyKinds == EntityKinds \cup {INFO_SRC, INFO_DST}

\* C38: a call that read a submessage header of kind ACKNACK, GAP,
\* HEARTBEAT, HEARTBEAT_FRAG, NACK_FRAG, INFO_SRC or INFO_DST with
\* submessage_length 0 returns an error, emits nothing, leaves the receiver
\* as it was and the state ReadingHeader, and takes the 4 header bytes only:
\* the bytes of a body that follow the header stay in the buffer.
C38_ZeroLengthBody ==
    ReadSubmessageHeader /\ LastHeader.submessage_id \in BodyKinds
        /\ LastHeader.submessage_length = 0
    => /\ result.tag = "Err"
       /\ result.item = <<>>
       /\ Len(emitted) = 0 \/ emitted[Len(emitted)].at # StartedAt
       /\ receiver = prev.receiver
       /\ state = "ReadingHeader"
       /\ bytes = Drop(PrevBytes, SubmessageHeaderMinimumBytesNeeded)

\* A GAP header of length 0 was read while the whole body of a GAP stood
\* behind it in the buffer; the body is still there.
C38_Witness ==
    \E i \in 1..Len(units) :
        /\ CaseCallAt(i, "zero_length")
        /\ LastHeader.submessage_id = GAP
        /\ result.tag = "Err"
        /\ state = "ReadingHeader"
        /\ Take(bytes, Len(Write("Gap", GapValue, "BigEndian"))) = Write("Gap", GapValue, "BigEndian")

-----------------------------------------------------------------------------
(* C39 *)

\* The last call returned and took 20 bytes from the buffer in
\* ReadingHeader, 4 bytes or more in ReadingSubmessage.
Shortened ==
    Called /\ result.tag \in {"Ok", "Err"}
    => IF prev.state = "ReadingHeader"
       THEN Len(bytes) = prev.len - HeaderMinimumBytesNeeded
       ELSE Len(bytes) <= prev.len - SubmessageHeaderMinimumBytesNeeded

\* C39: every call that returns, with a value or with an error, leaves the
\* buffer shorter, by 20 bytes in ReadingHeader and by at least 4 in
\* ReadingSubmessage; and a caller that goes on calling while bytes remain
\* comes, after finitely many calls, to an empty buffer unless a call does
\* not return.
C39_Drains == []Shortened /\ <>(bytes = <<>> \/ result.tag = "Panic")

\* The buffer of a header and at least two submessages has been drained, the
\* last call being one that returned an error.
C39_Witness ==
    /\ Len(units) >= 3
    /\ Called
    /\ prev.state = "ReadingSubmessage"
    /\ result.tag = "Err"
    /\ bytes = <<>>

-----------------------------------------------------------------------------
(* C40 *)

\* C40: the conversion of a Time_t other than TIME_INVALID, negative seconds
\* included, returns a wallclock time whose whole seconds since the Unix
\* epoch are the value's seconds field.
C40_SecondsKept ==
    (subject.type = "Time_t" /\ applied.tag = "Converted" /\ subject.v # TIME_INVALID) =>
        /\ applied.converted.tag = "Ok"
        /\ applied.converted.val.secs = subject.v.seconds

=============================================================================
